---- MODULE Spec2Model ----
(***************************************************************************)
(* Model of the WhatsApp campaign bot:                                     *)
(*   - the keyword matcher      (src/src/utils/keyword-matcher.js)         *)
(*   - the conversation store   (src/unnamed/part_000)                     *)
(*   - the inbound-message pipeline handleIncomingMessage                  *)
(*     (src/src/services/whatsapp.service.js and its reconnecting          *)
(*      variant src/unnamed/part_001)                                      *)
(*   - the client lifecycle of the same two services (initialize,          *)
(*     destroy, the client's event handlers) and the HTTP controls of      *)
(*     src/src/server.js that drive it                                     *)
(***************************************************************************)
EXTENDS Integers, Sequences, FiniteSets, Bags, TLC

VARIABLES
    \* ---- keyword matcher: one call and a re-cased second call ----
    messageText,      \* argument 1 of matchKeywords (a JS string or null)
    triggerKeywords,  \* argument 2 of matchKeywords (a JS object or null)
    result,           \* what the last call returned (or threw)
    prevResult,       \* what the call before a re-casing returned
    mop,              \* the last matcher step
    \* ---- conversation store ----
    conversations,    \* table bot_conversations: row i has id i
    \* ---- handleIncomingMessage, one run per inbound event ----
    impl,             \* which whatsapp.service the process runs
    pc,               \* the await each run is suspended at
    message,          \* the event's message: fromMe, from, body
    outcome,          \* how the run ended
    conversationId,   \* id returned by createConversation, 0 before
    total,            \* messages.length, -1 before getCampaignMessages
    sent,             \* result.sent of the dispatcher
    failed,           \* result.failed of the dispatcher
    calls,            \* the collaborator calls the run has issued, in order
    reply,            \* what message.reply was called with
    denyReason,       \* rateLimitCheck.reason of a denial
    dedupPassedAt,    \* rows in the table when the run passed the dedup check
    erroredBefore,    \* the runs that had ended in the catch when the event arrived
    \* ---- conversation store called directly, calls in flight ----
    inflight,         \* queries issued to the database and not yet executed
    sop,              \* the last step of a store call
    counted,          \* incrementMessagesSent calls issued, per conversation id
    \* ---- WhatsAppService: the client lifecycle ----
    client,           \* this.client: 0 is null, else the Client object held
    isReady,          \* this.isReady
    isInitializing,   \* this.isInitializing
    qrCodeData,       \* this.qrCodeData: a data URL or null
    reconnectAttempts,\* this.reconnectAttempts (reconnecting service only)
    created,          \* Client objects constructed so far: objects 1..created
    alive,            \* Client objects whose browser has not been closed
    tasks,            \* async calls and handlers suspended at an await
    lop,              \* the last lifecycle step
    stopped           \* destroy() completed and initialize() was not called
                      \* from outside the service since

mvars == <<messageText, triggerKeywords, result, prevResult, mop>>

hvars == <<impl, pc, message, outcome, conversationId, total, sent, failed,
           calls, reply, denyReason, dedupPassedAt, erroredBefore>>

svars == <<inflight, sop, counted>>

\* the fields of the service object
fields == <<client, isReady, isInitializing, qrCodeData, reconnectAttempts>>

lvars == <<client, isReady, isInitializing, qrCodeData, reconnectAttempts,
           created, alive, tasks, lop, stopped>>

vars == <<messageText, triggerKeywords, result, prevResult, mop,
          conversations, impl, pc, message, outcome, conversationId, total,
          sent, failed, calls, reply, denyReason, dedupPassedAt, erroredBefore,
          inflight, sop, counted,
          client, isReady, isInitializing, qrCodeData, reconnectAttempts,
          created, alive, tasks, lop, stopped>>

(***************************************************************************)
(* Bounds                                                                  *)
(***************************************************************************)
MaxTextLen == 2     \* longest message text drawn
MaxEntries == 2     \* most rule entries (phrases, synonym groups) in a rule set
MaxEvents == 2      \* inbound message events delivered
MaxTemplates == 2   \* most message templates of a campaign
MaxRows == 1        \* most conversations created by direct store calls
MaxInflight == 2    \* most store queries in flight at once
MaxIncrements == 2  \* most incrementMessagesSent calls on one conversation
MaxClients == 4     \* most Client objects constructed
MaxTasks == 2       \* most lifecycle calls and handlers suspended at once

(***************************************************************************)
(* JavaScript values                                                       *)
(***************************************************************************)
WhiteSpace == {" "}

JsNull    == [kind |-> "null",   val |-> <<>>]
JsStr(s)  == [kind |-> "string", val |-> s]
JsNum     == [kind |-> "number", val |-> <<>>]
JsArr(xs) == [kind |-> "array",  val |-> xs]
JsObj(ps) == [kind |-> "object", val |-> ps]

\* JS truthiness: null and "" are falsy; arrays, objects, non-empty strings
\* and the (non-zero) number are truthy.
Truthy(v) ==
    CASE v.kind = "null"   -> FALSE
      [] v.kind = "string" -> v.val # <<>>
      [] OTHER             -> TRUE

IsArray(v) == v.kind = "array"

\* String.prototype.toLowerCase on the model's alphabet
LowerChar(c) == CASE c = "A" -> "a" [] c = "B" -> "b" [] OTHER -> c
UpperChar(c) == CASE c = "a" -> "A" [] c = "b" -> "B" [] OTHER -> c
ToLowerCase(s) == [i \in 1..Len(s) |-> LowerChar(s[i])]

\* String.prototype.trim
RECURSIVE TrimLeft(_)
TrimLeft(s) ==
    IF s # <<>> /\ Head(s) \in WhiteSpace THEN TrimLeft(Tail(s)) ELSE s

RECURSIVE TrimRight(_)
TrimRight(s) ==
    IF s # <<>> /\ s[Len(s)] \in WhiteSpace
    THEN TrimRight(SubSeq(s, 1, Len(s) - 1)) ELSE s

Trim(s) == TrimRight(TrimLeft(s))

\* String.prototype.includes
Includes(hay, needle) ==
    \E i \in 0..(Len(hay) - Len(needle)) :
        SubSeq(hay, i + 1, i + Len(needle)) = needle

\* s.split(/\s+/).filter(t => t.length > 0): the maximal runs of
\* non-whitespace characters, in order
RECURSIVE SplitTokens(_, _, _)
SplitTokens(s, cur, acc) ==
    IF s = <<>> THEN (IF cur = <<>> THEN acc ELSE Append(acc, cur))
    ELSE IF Head(s) \in WhiteSpace
         THEN SplitTokens(Tail(s), <<>>, IF cur = <<>> THEN acc ELSE Append(acc, cur))
         ELSE SplitTokens(Tail(s), Append(cur, Head(s)), acc)

Tokens(s) == SplitTokens(s, <<>>, <<>>)

TokensInclude(tokens, w) == \E i \in 1..Len(tokens) : tokens[i] = w

(***************************************************************************)
(* matchKeywords                                                           *)
(***************************************************************************)
NoMatch == [type |-> "NULL",  matched |-> <<>>]
Thrown  == [type |-> "THROW", matched |-> <<>>]

\* textLower = messageText.toLowerCase().trim()
NormalizeTextNoLower(s) == Trim(s)
NormalizeText(s) == Trim(ToLowerCase(s))

\* textLower.includes(word.toLowerCase())
PhraseHit(textLower, word) == Includes(textLower, ToLowerCase(word.val))

\* tokens.includes(keywordLower) || textLower.includes(keywordLower)
WordHit(tokens, textLower, word) ==
    LET keywordLower == ToLowerCase(word.val)
    IN  TokensInclude(tokens, keywordLower) \/ Includes(textLower, keywordLower)

\* One for-of loop over a tier: the index of the first entry that hits, 0 when
\* the loop ends without a hit, -1 when entry.toLowerCase() throws (the entry
\* is not a string) before any hit.
RECURSIVE ScanTier(_, _, _, _, _)
ScanTier(items, i, tokens, textLower, byWord) ==
    IF i > Len(items) THEN 0
    ELSE IF items[i].kind # "string" THEN -1
    ELSE IF (IF byWord THEN WordHit(tokens, textLower, items[i])
                       ELSE PhraseHit(textLower, items[i]))
         THEN i
         ELSE ScanTier(items, i + 1, tokens, textLower, byWord)

\* return { matched: mainWord, type: 'SYNONYM' }
SynonymResultToken(mainWord, synonym) == [type |-> "SYNONYM", matched |-> synonym]
SynonymResult(mainWord, synonym) == [type |-> "SYNONYM", matched |-> mainWord]

\* for (const [mainWord, synonymList] of Object.entries(synonyms))
RECURSIVE ScanSynonyms(_, _, _, _)
ScanSynonyms(groups, g, tokens, textLower) ==
    IF g > Len(groups) THEN NoMatch
    ELSE IF ~IsArray(groups[g].list)
         THEN ScanSynonyms(groups, g + 1, tokens, textLower)
         ELSE LET list == groups[g].list.val
                  hit  == ScanTier(list, 1, tokens, textLower, TRUE)
              IN  IF hit = -1 THEN Thrown
                  ELSE IF hit > 0
                       THEN SynonymResult(groups[g].key, list[hit].val)
                       ELSE ScanSynonyms(groups, g + 1, tokens, textLower)

\* step 5 of matchKeywords
MatchSynonyms(rules, tokens, textLower) ==
    IF Truthy(rules.synonyms) /\ rules.synonyms.kind = "object"
    THEN ScanSynonyms(rules.synonyms.val, 1, tokens, textLower)
    ELSE NoMatch

\* steps 3-4 of matchKeywords
MatchKeywordTier(rules, textLower) ==
    LET tokens == Tokens(textLower)
        hit == IF Truthy(rules.keywords) /\ IsArray(rules.keywords)
               THEN ScanTier(rules.keywords.val, 1, tokens, textLower, TRUE)
               ELSE 0
    IN  IF hit = -1 THEN Thrown
        ELSE IF hit > 0
             THEN [type |-> "KEYWORD", matched |-> rules.keywords.val[hit].val]
             ELSE MatchSynonyms(rules, tokens, textLower)

\* step 2 of matchKeywords
MatchExact(rules, textLower) ==
    LET hit == IF Truthy(rules.exact_matches) /\ IsArray(rules.exact_matches)
               THEN ScanTier(rules.exact_matches.val, 1, <<>>, textLower, FALSE)
               ELSE 0
    IN  IF hit = -1 THEN Thrown
        ELSE IF hit > 0
             THEN [type |-> "EXACT", matched |-> rules.exact_matches.val[hit].val]
             ELSE MatchKeywordTier(rules, textLower)

\* step 1 of matchKeywords
MatchExcluded(rules, textLower) ==
    LET hit == IF Truthy(rules.excluded_words) /\ IsArray(rules.excluded_words)
               THEN ScanTier(rules.excluded_words.val, 1, <<>>, textLower, FALSE)
               ELSE 0
    IN  IF hit = -1 THEN Thrown
        ELSE IF hit > 0 THEN NoMatch
        ELSE MatchExact(rules, textLower)

matchKeywords(text, rules) ==
    IF ~Truthy(text) \/ ~Truthy(rules) THEN NoMatch
    ELSE MatchExcluded(rules, NormalizeText(text.val))

(***************************************************************************)
(* Inputs of the matcher: texts and rule sets drawn from bounded sets      *)
(***************************************************************************)
SeqsUpTo(S, n) == UNION {[1..k -> S] : k \in 0..n}

\* the characters message texts are built from
TextChars == {"a", "A", " "}

\* a message text: null/undefined, or a string of at most MaxTextLen characters
Texts == {JsNull} \cup {JsStr(s) : s \in SeqsUpTo(TextChars, MaxTextLen)}

\* what a tier may list: phrases (the empty one and a mixed-case one among
\* them) and a malformed, non-string entry
EntryPool == {JsStr(<<>>), JsStr(<<"a">>), JsStr(<<"A", "a">>), JsNum}

\* canonical words of synonym groups
KeyPool == {<<"a">>, <<"B">>}

\* a tier (excluded_words, exact_matches, keywords): absent, or an array
TierValues == {JsNull} \cup {JsArr(s) : s \in SeqsUpTo(EntryPool, MaxEntries)}

TierSize(t) == IF IsArray(t) THEN Len(t.val) ELSE 0

\* a synonym group: a canonical word and its list, which is an array or a
\* non-array (skipped by the code)
Groups == [key : KeyPool, list : TierValues]

GroupSize(g) == IF TierSize(g.list) > 1 THEN TierSize(g.list) ELSE 1

RECURSIVE GroupsSize(_)
GroupsSize(gs) == IF gs = <<>> THEN 0 ELSE GroupSize(Head(gs)) + GroupsSize(Tail(gs))

\* the entries of a synonyms object, in enumeration order; keys are distinct
GroupSeqs ==
    {gs \in SeqsUpTo(Groups, Cardinality(KeyPool)) :
        /\ GroupsSize(gs) <= MaxEntries
        /\ \A i, j \in 1..Len(gs) : gs[i].key = gs[j].key => i = j}

SynonymValues == {JsNull} \cup {JsObj(gs) : gs \in GroupSeqs}

SynonymsSize(sy) == IF sy.kind = "object" THEN GroupsSize(sy.val) ELSE 0

\* the tiers and synonym objects of at most n entries
TiersUpTo == [n \in 0..MaxEntries |-> {t \in TierValues : TierSize(t) <= n}]
SynonymsUpTo == [n \in 0..MaxEntries |-> {sy \in SynonymValues : SynonymsSize(sy) <= n}]

AbsentRules ==
    [kind |-> "null", excluded_words |-> JsNull, exact_matches |-> JsNull,
     keywords |-> JsNull, synonyms |-> JsNull]

RuleSet(ex, em, kw, sy) ==
    [kind |-> "object", excluded_words |-> ex, exact_matches |-> em,
     keywords |-> kw, synonyms |-> sy]

(***************************************************************************)
(* Conversation store (table bot_conversations)                            *)
(***************************************************************************)
validStatuses == {"INITIATED", "IN_PROGRESS", "COMPLETED", "FAILED", "CANCELLED"}
ActiveStatuses == {"INITIATED", "IN_PROGRESS"}
TerminalStatuses == {"COMPLETED", "FAILED", "CANCELLED"}

\* column session_metadata: SQL NULL or a JSON object.  An object is a map from
\* the keys below to the key's value, "none" for a key it does not have.
MetaKeys == {"failure_reason", "source"}

\* '{}'
EmptyDoc == [k \in MetaKeys |-> "none"]

SqlNull == [isNull |-> TRUE, doc |-> EmptyDoc]
Json(doc) == [isNull |-> FALSE, doc |-> doc]

\* COALESCE(v, dflt)
Coalesce(v, dflt) == IF v.isNull THEN dflt ELSE v

\* JSON_SET(v, '$.key', value): NULL for a NULL document, else the document
\* with the key set and its other keys as they were
JsonSet(v, key, value) ==
    IF v.isNull THEN SqlNull ELSE Json([v.doc EXCEPT ![key] = value])

\* session_metadata->'$.failure_reason' of a row
FailureReasonOf(c) == c.session_metadata.doc["failure_reason"]

\* INSERT INTO bot_conversations (...) VALUES (..., 'INITIATED', NOW()),
\* guarded by a check that the user has no active row
createConversationIfNoneActive(convs, data) ==
    IF \E i \in 1..Len(convs) :
           convs[i].user_phone = data.userPhone /\ convs[i].status \in ActiveStatuses
    THEN convs
    ELSE Append(convs,
           [user_phone |-> data.userPhone, campaign_id |-> data.campaignId,
            status |-> "INITIATED", messages_sent |-> 0,
            conversation_ended_at |-> FALSE, last_message_sent_at |-> FALSE,
            session_metadata |-> SqlNull])

\* INSERT INTO bot_conversations (...) VALUES (..., 'INITIATED', NOW());
\* the new row's id (result.insertId) is its position in the table
createConversation(convs, data) ==
    Append(convs,
           [user_phone |-> data.userPhone, campaign_id |-> data.campaignId,
            status |-> "INITIATED", messages_sent |-> 0,
            conversation_ended_at |-> FALSE, last_message_sent_at |-> FALSE,
            session_metadata |-> SqlNull])

\* UPDATE ... WHERE id = ?: touches the row with that id, if there is one
UpdateRow(convs, id, row) ==
    IF id \in 1..Len(convs) THEN [convs EXCEPT ![id] = row] ELSE convs

\* UPDATE ... SET status = ?, conversation_ended_at = CASE WHEN ? IN
\* ('COMPLETED','FAILED','CANCELLED') THEN NOW() ELSE conversation_ended_at END
\* (called with one of validStatuses; any other value throws before the query)
updateConversationStatus(convs, id, status) ==
    IF id \in 1..Len(convs)
    THEN [convs EXCEPT ![id] =
            [@ EXCEPT !.status = status,
                      !.conversation_ended_at =
                          IF status \in TerminalStatuses THEN TRUE ELSE @]]
    ELSE convs

\* UPDATE ... SET messages_sent = 1, ...: the counter written from a value read
\* before the row was created (a read-then-write that loses updates)
incrementMessagesSentFromStaleRead(convs, id) ==
    IF id \in 1..Len(convs)
    THEN [convs EXCEPT ![id] =
            [@ EXCEPT !.messages_sent = 1,
                      !.last_message_sent_at = TRUE,
                      !.status = "IN_PROGRESS"]]
    ELSE convs

\* UPDATE ... SET messages_sent = messages_sent + 1,
\* last_message_sent_at = NOW(), status = 'IN_PROGRESS'
incrementMessagesSent(convs, id) ==
    IF id \in 1..Len(convs)
    THEN [convs EXCEPT ![id] =
            [@ EXCEPT !.messages_sent = @ + 1,
                      !.last_message_sent_at = TRUE,
                      !.status = "IN_PROGRESS"]]
    ELSE convs

\* the rows SELECT ... WHERE user_phone = ? AND status IN ('INITIATED') finds
ActiveRowsInitiatedOnly(convs, userPhone) ==
    {i \in 1..Len(convs) :
        convs[i].user_phone = userPhone /\ convs[i].status = "INITIATED"}

\* the rows SELECT ... WHERE user_phone = ? AND status IN ('INITIATED',
\* 'IN_PROGRESS') finds
ActiveRows(convs, userPhone) ==
    {i \in 1..Len(convs) :
        convs[i].user_phone = userPhone /\ convs[i].status \in ActiveStatuses}

\* SELECT ... WHERE status IN ('INITIATED', 'IN_PROGRESS') ... LIMIT 1, without
\* the user_phone condition: the latest active row of any user
getActiveConversationAnyUser(convs, userPhone) ==
    LET rows == {i \in 1..Len(convs) : convs[i].status \in ActiveStatuses}
    IN  IF rows = {} THEN 0
        ELSE CHOOSE i \in rows : \A k \in rows : k <= i

\* a query that finds no row
getActiveConversationNone(convs, userPhone) == 0

\* ... ORDER BY conversation_started_at DESC LIMIT 1: the id of the most
\* recently started active row (rows start in id order), 0 for null
getActiveConversation(convs, userPhone) ==
    LET rows == ActiveRows(convs, userPhone)
    IN  IF rows = {} THEN 0
        ELSE CHOOSE i \in rows : \A k \in rows : k <= i

\* UPDATE ... SET status = 'COMPLETED', conversation_ended_at = NOW()
completeConversation(convs, id) ==
    IF id \in 1..Len(convs)
    THEN [convs EXCEPT ![id] =
            [@ EXCEPT !.status = "COMPLETED", !.conversation_ended_at = TRUE]]
    ELSE convs

\* UPDATE ... SET status = 'FAILED', conversation_ended_at = NOW(),
\* session_metadata = JSON_OBJECT('failure_reason', ?): the map replaced
failConversationReplacingMetadata(convs, id, reason) ==
    IF id \in 1..Len(convs)
    THEN [convs EXCEPT ![id] =
            [@ EXCEPT !.status = "FAILED", !.conversation_ended_at = TRUE,
                      !.session_metadata =
                          Json([EmptyDoc EXCEPT !["failure_reason"] = reason])]]
    ELSE convs

\* UPDATE ... SET status = 'FAILED', conversation_ended_at = NOW(),
\* session_metadata = JSON_SET(COALESCE(session_metadata,'{}'),
\* '$.failure_reason', ?)
failConversation(convs, id, reason) ==
    IF id \in 1..Len(convs)
    THEN [convs EXCEPT ![id] =
            [@ EXCEPT !.status = "FAILED", !.conversation_ended_at = TRUE,
                      !.session_metadata =
                          JsonSet(Coalesce(@, Json(EmptyDoc)), "failure_reason", reason)]]
    ELSE convs

\* if (!validStatuses.includes(status)) throw ...: a check that lets any
\* status through
StatusIsValidAny(status) == TRUE

\* validStatuses.includes(status)
StatusIsValid(status) == status \in validStatuses

(***************************************************************************)
(* handleIncomingMessage: the state of its runs                            *)
(***************************************************************************)
Events == 1..MaxEvents

\* the two versions of the service: whatsapp.service.js, and the one with
\* automatic reconnection
Impls == {"base", "reconnect"}

UserPhones == {"51911@c.us", "51922@c.us"}
GroupIds == {"1203@g.us"}

\* message.from.includes('@g.us')
IsGroup(from) == from \in GroupIds

\* message bodies: empty, whitespace only, a text
Bodies == {JsStr(<<>>), JsStr(<<" ">>), JsStr(<<"a">>)}

\* !messageText: the test without the trim
IsBlankEmptyOnly(body) == ~Truthy(body)

\* !messageText || messageText.trim().length === 0
IsBlank(body) == ~Truthy(body) \/ Len(Trim(body.val)) = 0

\* the messages delivered: those of the users with a text, one per filter that
\* discards it, and one that every filter would discard
Messages ==
    {m \in [fromMe : BOOLEAN, from : UserPhones \cup GroupIds, body : Bodies] :
        \/ ~m.fromMe /\ ~IsGroup(m.from) /\ ~IsBlank(m.body)
        \/ m.fromMe /\ ~IsGroup(m.from) /\ ~IsBlank(m.body)
        \/ ~m.fromMe /\ IsGroup(m.from) /\ ~IsBlank(m.body)
        \/ ~m.fromMe /\ ~IsGroup(m.from) /\ IsBlank(m.body)
        \/ m.fromMe /\ IsGroup(m.from) /\ IsBlank(m.body)}

NoMessage == [fromMe |-> FALSE, from |-> "none", body |-> JsNull]

\* no event delivered yet, empty table
HandlerInit ==
    /\ conversations = <<>>
    /\ impl \in Impls
    /\ pc = [e \in Events |-> "idle"]
    /\ message = [e \in Events |-> NoMessage]
    /\ outcome = [e \in Events |-> "pending"]
    /\ conversationId = [e \in Events |-> 0]
    /\ total = [e \in Events |-> -1]
    /\ sent = [e \in Events |-> 0]
    /\ failed = [e \in Events |-> 0]
    /\ calls = [e \in Events |-> <<>>]
    /\ reply = [e \in Events |-> "none"]
    /\ denyReason = [e \in Events |-> "none"]
    /\ dedupPassedAt = [e \in Events |-> -1]
    /\ erroredBefore = [e \in Events |-> {}]

\* the service is not running: nothing is ever delivered
HandlerOff ==
    /\ conversations = <<>>
    /\ impl = "base"
    /\ pc = [e \in Events |-> "off"]
    /\ message = [e \in Events |-> NoMessage]
    /\ outcome = [e \in Events |-> "pending"]
    /\ conversationId = [e \in Events |-> 0]
    /\ total = [e \in Events |-> -1]
    /\ sent = [e \in Events |-> 0]
    /\ failed = [e \in Events |-> 0]
    /\ calls = [e \in Events |-> <<>>]
    /\ reply = [e \in Events |-> "none"]
    /\ denyReason = [e \in Events |-> "none"]
    /\ dedupPassedAt = [e \in Events |-> -1]
    /\ erroredBefore = [e \in Events |-> {}]

\* a step of a store call: which step, of which function, with which argument
StepWith(step, op, arg) == [step |-> step, op |-> op, arg |-> arg]

\* a step of a store call: which step, of which function
Step(step, op) == StepWith(step, op, "none")

\* the store is called by the pipeline only
StoreOff ==
    /\ inflight = EmptyBag
    /\ sop = Step("off", "none")
    /\ counted = [i \in 1..MaxRows |-> 0]

\* a lifecycle step: what ran and how it ended; for the call of initialize()
\* made or resumed in the step, if any, how the call went on, the guard that
\* threw, and the retries its chain has made
DidCall(op, note, init, guard, retries) ==
    [op |-> op, note |-> note, init |-> init, guard |-> guard, retries |-> retries]

Did(op, note, init, guard) == DidCall(op, note, init, guard, 0)

\* the service object as its constructor leaves it
Constructed ==
    /\ client = 0
    /\ qrCodeData = "null"
    /\ isReady = FALSE
    /\ isInitializing = FALSE
    /\ reconnectAttempts = 0

\* the lifecycle is not under observation: no client is ever constructed
LifeOff ==
    /\ Constructed
    /\ created = 0
    /\ alive = {}
    /\ tasks = EmptyBag
    /\ lop = Did("off", "none", "none", "none")
    /\ stopped = FALSE

\* the lifecycle is not under observation: the client that delivers the
\* message events is connected
LifeConnected ==
    /\ client = 1
    /\ qrCodeData = "null"
    /\ isReady = TRUE
    /\ isInitializing = FALSE
    /\ reconnectAttempts = 0
    /\ created = 1
    /\ alive = {1}
    /\ tasks = EmptyBag
    /\ lop = Did("off", "none", "none", "none")
    /\ stopped = FALSE

\* no call of matchKeywords is under observation
MatcherOff ==
    /\ messageText = JsNull
    /\ triggerKeywords = [kind |-> "null", excluded_words |-> JsNull,
                          exact_matches |-> JsNull, keywords |-> JsNull,
                          synonyms |-> JsNull]
    /\ result = [type |-> "PENDING", matched |-> <<>>]
    /\ prevResult = [type |-> "PENDING", matched |-> <<>>]
    /\ mop = "off"

(***************************************************************************)
(* The matcher's specification: draw the inputs, call matchKeywords, then  *)
(* call it again with the case of one letter changed                       *)
(***************************************************************************)
Pending == [type |-> "PENDING", matched |-> <<>>]

MatcherInit ==
    /\ messageText \in Texts
    /\ \/ triggerKeywords = AbsentRules
       \/ \E ex \in TiersUpTo[MaxEntries] :
          \E em \in TiersUpTo[MaxEntries - TierSize(ex)] :
          \E kw \in TiersUpTo[MaxEntries - TierSize(ex) - TierSize(em)] :
          \E sy \in SynonymsUpTo[MaxEntries - TierSize(ex) - TierSize(em) - TierSize(kw)] :
              triggerKeywords = RuleSet(ex, em, kw, sy)
    /\ result = Pending
    /\ prevResult = Pending
    /\ mop = "init"
    /\ HandlerOff
    /\ StoreOff
    /\ LifeOff

\* a call matchKeywords(messageText, triggerKeywords)
Match ==
    /\ mop = "init"
    /\ result' = matchKeywords(messageText, triggerKeywords)
    /\ mop' = "match"
    /\ UNCHANGED <<messageText, triggerKeywords, prevResult, conversations, hvars, svars, lvars>>

SwapCase(c) == IF LowerChar(c) # c THEN LowerChar(c) ELSE UpperChar(c)

\* the same call on a text that differs in the case of one letter
RecaseText ==
    /\ mop = "match"
    /\ messageText.kind = "string"
    /\ \E i \in 1..Len(messageText.val) :
          /\ SwapCase(messageText.val[i]) # messageText.val[i]
          /\ messageText' = JsStr([messageText.val EXCEPT ![i] = SwapCase(@)])
    /\ prevResult' = result
    /\ result' = matchKeywords(messageText', triggerKeywords)
    /\ mop' = "recaseText"
    /\ UNCHANGED <<triggerKeywords, conversations, hvars, svars, lvars>>

\* a phrase with the case of its j-th letter changed
RecasePhrase(e, j) == JsStr([e.val EXCEPT ![j] = SwapCase(@)])

RecasableAt(items, i, j) ==
    /\ i \in 1..Len(items)
    /\ items[i].kind = "string"
    /\ j \in 1..Len(items[i].val)
    /\ SwapCase(items[i].val[j]) # items[i].val[j]

RecaseTier(t, i, j) == JsArr([t.val EXCEPT ![i] = RecasePhrase(@, j)])

\* the same call on a rule set in which one phrase (an excluded phrase, an
\* exact-match phrase, a keyword or a synonym) differs in the case of one letter
RecaseRule ==
    /\ mop = "match"
    /\ triggerKeywords.kind = "object"
    /\ \E i \in 1..MaxEntries + 1, j \in 1..2 :
          \/ /\ IsArray(triggerKeywords.excluded_words)
             /\ RecasableAt(triggerKeywords.excluded_words.val, i, j)
             /\ triggerKeywords' =
                  [triggerKeywords EXCEPT !.excluded_words = RecaseTier(@, i, j)]
          \/ /\ IsArray(triggerKeywords.exact_matches)
             /\ RecasableAt(triggerKeywords.exact_matches.val, i, j)
             /\ triggerKeywords' =
                  [triggerKeywords EXCEPT !.exact_matches = RecaseTier(@, i, j)]
          \/ /\ IsArray(triggerKeywords.keywords)
             /\ RecasableAt(triggerKeywords.keywords.val, i, j)
             /\ triggerKeywords' =
                  [triggerKeywords EXCEPT !.keywords = RecaseTier(@, i, j)]
          \/ /\ triggerKeywords.synonyms.kind = "object"
             /\ \E g \in 1..Len(triggerKeywords.synonyms.val) :
                   /\ IsArray(triggerKeywords.synonyms.val[g].list)
                   /\ RecasableAt(triggerKeywords.synonyms.val[g].list.val, i, j)
                   /\ triggerKeywords' =
                        [triggerKeywords EXCEPT
                            !.synonyms.val[g].list = RecaseTier(@, i, j)]
    /\ prevResult' = result
    /\ result' = matchKeywords(messageText, triggerKeywords')
    /\ mop' = "recaseRule"
    /\ UNCHANGED <<messageText, conversations, hvars, svars, lvars>>

MatcherNext == Match \/ RecaseText \/ RecaseRule

SpecMatcher == MatcherInit /\ [][MatcherNext]_vars

(***************************************************************************)
(* Properties of matchKeywords                                             *)
(***************************************************************************)
Called == mop = "match"

\* the text the rules are compared with: lower-cased and trimmed
TextLower == NormalizeText(messageText.val)

\* entry i of the tier is a phrase and the normalized text contains it
ContainsPhrase(t, i) ==
    /\ IsArray(t)
    /\ i \in 1..Len(t.val)
    /\ t.val[i].kind = "string"
    /\ Includes(TextLower, ToLowerCase(t.val[i].val))

ContainsAny(t) == \E i \in 1..TierSize(t) : ContainsPhrase(t, i)

\* every entry of every tier is a string
StringsOnly(t) == \A i \in 1..TierSize(t) : t.val[i].kind = "string"

PhrasesOnly(rules) ==
    /\ StringsOnly(rules.excluded_words)
    /\ StringsOnly(rules.exact_matches)
    /\ StringsOnly(rules.keywords)
    /\ rules.synonyms.kind = "object" =>
          \A g \in 1..Len(rules.synonyms.val) : StringsOnly(rules.synonyms.val[g].list)

\* C1: whenever the lower-cased, trimmed text contains an excluded phrase,
\* matchKeywords returns no-match, whatever else the text contains.
C1_ExcludedWins ==
    (/\ Called
     /\ messageText.kind = "string"
     /\ triggerKeywords.kind = "object"
     /\ ContainsAny(triggerKeywords.excluded_words))
    => result = NoMatch

\* C1 on rule sets whose entries are all strings: there the exclusion check
\* does win (the remaining failures of C1 are the throw of C6).
C1_ExcludedWinsOnPhrases ==
    (/\ Called
     /\ messageText.kind = "string"
     /\ triggerKeywords.kind = "object"
     /\ PhrasesOnly(triggerKeywords)
     /\ ContainsAny(triggerKeywords.excluded_words))
    => result = NoMatch

\* the first phrase of the tier, in listed order, that the text contains
FirstContained(t) ==
    CHOOSE i \in 1..TierSize(t) :
        ContainsPhrase(t, i) /\ \A k \in 1..(i - 1) : ~ContainsPhrase(t, k)

\* C2: a non-empty text that contains no excluded phrase and at least one
\* exact-match phrase yields EXACT with the first such phrase in listed order,
\* in the rule set's casing.  (Stated for non-empty texts: on the empty text
\* the claim competes with the empty-text rule of C5.)
C2_ExactFirstListed ==
    (/\ Called
     /\ Truthy(messageText)
     /\ triggerKeywords.kind = "object"
     /\ ~ContainsAny(triggerKeywords.excluded_words)
     /\ ContainsAny(triggerKeywords.exact_matches))
    => result = [type |-> "EXACT",
                 matched |-> triggerKeywords.exact_matches.val[
                                 FirstContained(triggerKeywords.exact_matches)].val]

\* C2 on rule sets whose entries are all strings
C2_ExactFirstListedOnPhrases ==
    (Called /\ PhrasesOnly(triggerKeywords)) => C2_ExactFirstListed

\* group g of the synonyms object has a synonym the text contains
GroupContains(g) == ContainsAny(triggerKeywords.synonyms.val[g].list)

\* C3: a SYNONYM result carries the canonical key of the first synonym group,
\* in listed order, that has a synonym contained in the text - not the synonym.
C3_SynonymReportsCanonical ==
    (mop # "init" /\ result.type = "SYNONYM") =>
        \E g \in 1..Len(triggerKeywords.synonyms.val) :
            /\ GroupContains(g)
            /\ \A h \in 1..(g - 1) : ~GroupContains(h)
            /\ result.matched = triggerKeywords.synonyms.val[g].key

\* C3 witness: a SYNONYM result where two groups have a contained synonym and
\* the reported canonical word is none of the first group's synonyms
C3_Witness ==
    /\ Called
    /\ result.type = "SYNONYM"
    /\ Len(triggerKeywords.synonyms.val) = 2
    /\ GroupContains(1) /\ GroupContains(2)
    /\ result.matched = triggerKeywords.synonyms.val[1].key
    /\ \A i \in 1..Len(triggerKeywords.synonyms.val[1].list.val) :
          /\ triggerKeywords.synonyms.val[1].list.val[i].val # <<>>
          /\ ToLowerCase(triggerKeywords.synonyms.val[1].list.val[i].val)
                # ToLowerCase(result.matched)

\* C4: texts that differ only in letter case get identical results, and
\* changing the case of a rule phrase changes neither whether nor with which
\* type the text matches.
C4_CaseInsensitive ==
    /\ mop = "recaseText" => result = prevResult
    /\ mop = "recaseRule" => result.type = prevResult.type

\* C4 witness: an upper-case text matched by a lower-case phrase, as was the
\* text before its case was changed
C4_Witness ==
    /\ mop = "recaseText"
    /\ messageText.val # ToLowerCase(messageText.val)
    /\ result.type = "EXACT"
    /\ result.matched # <<>>
    /\ result.matched = ToLowerCase(result.matched)
    /\ result = prevResult

\* C5: an empty or whitespace-only text, and an absent rule set, yield
\* no-match whatever phrases the rule set lists (the empty phrase included).
C5_BlankYieldsNoMatch ==
    (/\ Called
     /\ PhrasesOnly(triggerKeywords)
     /\ \/ messageText.kind = "null"
        \/ Trim(messageText.val) = <<>>
        \/ triggerKeywords.kind = "null")
    => result = NoMatch

\* C5 on the texts and rule sets the first line of matchKeywords rejects:
\* the empty (or absent) text and the absent rule set
C5_EmptyYieldsNoMatch ==
    (/\ Called
     /\ \/ messageText.kind = "null"
        \/ messageText.val = <<>>
        \/ triggerKeywords.kind = "null")
    => result = NoMatch

\* C6: matchKeywords never throws, whatever entries the tiers hold.
C6_NeverThrows == result # Thrown

(***************************************************************************)
(* handleIncomingMessage: one action per resumption after an await.  The   *)
(* code between two awaits runs without interruption (one JS thread); at   *)
(* an await any other run may be resumed.                                  *)
(***************************************************************************)
AwaitPcs ==
    {"getContact", "getActiveConversation", "checkRateLimit", "reply",
     "detectCampaign", "updateRateLimit", "createConversation",
     "getCampaignMessages", "sendSequentialMessages", "completeConversation",
     "failConversation"}

\* reasons a rate-limit denial may carry; the last is in no mapping
DenyReasons == {"RATE_LIMIT_HOUR", "BLOCKED_TEMPORARY", "OTHER_REASON"}

CampaignIds == {1}

\* the keys of the messages object of getRateLimitMessage
MappedReasons(variant) ==
    IF variant = "base"
    THEN {"RATE_LIMIT_HOUR", "RATE_LIMIT_DAY", "BLOCKED_TEMPORARY", "BLOCKED_PERMANENT"}
    ELSE {"BLOCKED_TEMPORARY", "BLOCKED_PERMANENT"}

\* getRateLimitMessage(reason): the text replied, named by its key
getRateLimitMessage(variant, reason) ==
    IF variant = "base"
    THEN IF reason \in {"RATE_LIMIT_HOUR", "RATE_LIMIT_DAY",
                        "BLOCKED_TEMPORARY", "BLOCKED_PERMANENT"}
         THEN reason ELSE "DEFAULT_MESSAGE"
    ELSE IF reason \in {"BLOCKED_TEMPORARY", "BLOCKED_PERMANENT"}
         THEN reason ELSE "null"

\* the run issues a call and suspends at its await
Call(e, op) ==
    /\ pc' = [pc EXCEPT ![e] = op]
    /\ calls' = [calls EXCEPT ![e] = Append(@, op)]

\* the run returns from handleIncomingMessage
Return(e, how) ==
    /\ pc' = [pc EXCEPT ![e] = "done"]
    /\ outcome' = [outcome EXCEPT ![e] = how]

\* client.on('message'): handleIncomingMessage(message) runs up to its first
\* await - the fromMe, group and empty-text filters, then message.getContact().
\* Events are numbered in their order of arrival.
MessageEvent(e) ==
    /\ pc[e] = "idle"
    /\ \A o \in Events : o < e => pc[o] # "idle"
    /\ \E m \in Messages :
          /\ message' = [message EXCEPT ![e] = m]
          /\ IF m.fromMe THEN Return(e, "fromMe") /\ UNCHANGED calls
             ELSE IF IsGroup(m.from) THEN Return(e, "group") /\ UNCHANGED calls
             ELSE IF IsBlank(m.body) THEN Return(e, "blank") /\ UNCHANGED calls
             ELSE Call(e, "getContact") /\ UNCHANGED outcome
    /\ erroredBefore' = [erroredBefore EXCEPT
                            ![e] = {o \in Events : outcome[o] = "error"}]
    /\ UNCHANGED <<mvars, svars, lvars, conversations, impl, conversationId, total, sent,
                   failed, reply, denyReason, dedupPassedAt>>

\* the same, when the events of one user are processed one at a time
MessageEventInTurn(e) ==
    /\ MessageEvent(e)
    /\ \A o \in Events \ {e} :
          pc[o] \in AwaitPcs => message[o].from # message'[e].from

\* the same, with the rate check made before the dedup check
GetContactReturnsRateFirst(e) ==
    /\ pc[e] = "getContact"
    /\ Call(e, "checkRateLimit")
    /\ UNCHANGED <<mvars, svars, lvars, conversations, impl, message, outcome, conversationId,
                   total, sent, failed, reply, denyReason, dedupPassedAt, erroredBefore>>

\* contact resolved: PASO 1 queries getActiveConversation(userPhone)
GetContactReturns(e) ==
    /\ pc[e] = "getContact"
    /\ Call(e, "getActiveConversation")
    /\ UNCHANGED <<mvars, svars, lvars, conversations, impl, message, outcome, conversationId,
                   total, sent, failed, reply, denyReason, dedupPassedAt, erroredBefore>>

\* if (activeConversation) return; else PASO 2 checkRateLimit(userPhone)
GetActiveConversationReturns(e) ==
    /\ pc[e] = "getActiveConversation"
    /\ IF getActiveConversation(conversations, message[e].from) # 0
       THEN Return(e, "dedup") /\ UNCHANGED <<calls, dedupPassedAt>>
       ELSE /\ Call(e, "checkRateLimit")
            /\ dedupPassedAt' = [dedupPassedAt EXCEPT ![e] = Len(conversations)]
            /\ UNCHANGED outcome
    /\ UNCHANGED <<mvars, svars, lvars, conversations, impl, message, conversationId, total,
                   sent, failed, reply, denyReason, erroredBefore>>

\* the same, with a denial that is recorded only: the run goes on to PASO 3
CheckRateLimitReturnsLenient(e) ==
    /\ pc[e] = "checkRateLimit"
    /\ \/ /\ Call(e, "detectCampaign")
          /\ UNCHANGED <<outcome, reply, denyReason>>
       \/ \E r \in DenyReasons :
             /\ denyReason' = [denyReason EXCEPT ![e] = r]
             /\ Call(e, "detectCampaign")
             /\ UNCHANGED <<outcome, reply>>
    /\ UNCHANGED <<mvars, svars, lvars, conversations, impl, message, conversationId, total,
                   sent, failed, dedupPassedAt, erroredBefore>>

\* the same, with the rate limit charged as soon as the check allows the
\* message, before any campaign is resolved
CheckRateLimitReturnsCharging(e) ==
    /\ pc[e] = "checkRateLimit"
    /\ \/ /\ Call(e, "updateRateLimit")
          /\ UNCHANGED <<outcome, reply, denyReason>>
       \/ \E r \in DenyReasons :
             /\ denyReason' = [denyReason EXCEPT ![e] = r]
             /\ IF impl = "base"
                THEN /\ Call(e, "reply")
                     /\ reply' = [reply EXCEPT ![e] = getRateLimitMessage(impl, r)]
                     /\ UNCHANGED outcome
                ELSE Return(e, "denied") /\ UNCHANGED <<calls, reply>>
    /\ UNCHANGED <<mvars, svars, lvars, conversations, impl, message, conversationId, total,
                   sent, failed, dedupPassedAt, erroredBefore>>

\* if (!rateLimitCheck.allowed): reply with the reason's message and return
\* (base), or just return (reconnect); else PASO 3 detectCampaign(messageText)
CheckRateLimitReturns(e) ==
    /\ pc[e] = "checkRateLimit"
    /\ \/ /\ Call(e, "detectCampaign")
          /\ UNCHANGED <<outcome, reply, denyReason>>
       \/ \E r \in DenyReasons :
             /\ denyReason' = [denyReason EXCEPT ![e] = r]
             /\ IF impl = "base"
                THEN /\ Call(e, "reply")
                     /\ reply' = [reply EXCEPT ![e] = getRateLimitMessage(impl, r)]
                     /\ UNCHANGED outcome
                ELSE Return(e, "denied") /\ UNCHANGED <<calls, reply>>
    /\ UNCHANGED <<mvars, svars, lvars, conversations, impl, message, conversationId, total,
                   sent, failed, dedupPassedAt, erroredBefore>>

\* await message.reply(rateLimitMessage); return
ReplyReturns(e) ==
    /\ pc[e] = "reply"
    /\ Return(e, "denied")
    /\ UNCHANGED <<mvars, svars, lvars, conversations, impl, message, conversationId, total,
                   sent, failed, calls, reply, denyReason, dedupPassedAt, erroredBefore>>

\* the same, with a reply to the user when no campaign matches
DetectCampaignReturnsReplying(e) ==
    /\ pc[e] = "detectCampaign"
    /\ \/ /\ Call(e, "reply")
          /\ reply' = [reply EXCEPT ![e] = "DEFAULT_MESSAGE"]
          /\ UNCHANGED outcome
       \/ Call(e, "updateRateLimit") /\ UNCHANGED <<outcome, reply>>
    /\ UNCHANGED <<mvars, svars, lvars, conversations, impl, message, conversationId, total,
                   sent, failed, denyReason, dedupPassedAt, erroredBefore>>

\* if (!campaignMatch) return; else PASO 4 updateRateLimit(userPhone)
DetectCampaignReturns(e) ==
    /\ pc[e] = "detectCampaign"
    /\ \/ Return(e, "nomatch") /\ UNCHANGED calls
       \/ Call(e, "updateRateLimit") /\ UNCHANGED outcome
    /\ UNCHANGED <<mvars, svars, lvars, conversations, impl, message, conversationId, total,
                   sent, failed, reply, denyReason, dedupPassedAt, erroredBefore>>

\* PASO 5: createConversation({...})
UpdateRateLimitReturns(e) ==
    /\ pc[e] = "updateRateLimit"
    /\ Call(e, "createConversation")
    /\ UNCHANGED <<mvars, svars, lvars, conversations, impl, message, outcome, conversationId,
                   total, sent, failed, reply, denyReason, dedupPassedAt, erroredBefore>>

\* the row is inserted, its id returned; PASO 6 getCampaignMessages(campaignId)
CreateConversationReturns(e) ==
    /\ pc[e] = "createConversation"
    /\ \E c \in CampaignIds :
          conversations' = createConversation(conversations,
                               [userPhone |-> message[e].from, campaignId |-> c])
    /\ conversationId' = [conversationId EXCEPT ![e] = Len(conversations')]
    /\ Call(e, "getCampaignMessages")
    /\ UNCHANGED <<mvars, svars, lvars, impl, message, outcome, total, sent, failed, reply, denyReason,
                   dedupPassedAt, erroredBefore>>

\* PASO 6 without the check for an empty campaign
GetCampaignMessagesReturnsUnchecked(e) ==
    /\ pc[e] = "getCampaignMessages"
    /\ \E n \in 0..MaxTemplates :
          /\ total' = [total EXCEPT ![e] = n]
          /\ Call(e, "sendSequentialMessages")
    /\ UNCHANGED <<mvars, svars, lvars, conversations, impl, message, outcome, conversationId,
                   sent, failed, reply, denyReason, dedupPassedAt, erroredBefore>>

\* if (messages.length === 0) failConversation(id, 'Sin mensajes configurados')
\* else PASO 7 sendSequentialMessages(...)
GetCampaignMessagesReturns(e) ==
    /\ pc[e] = "getCampaignMessages"
    /\ \E n \in 0..MaxTemplates :
          /\ total' = [total EXCEPT ![e] = n]
          /\ IF n = 0 THEN Call(e, "failConversation")
                      ELSE Call(e, "sendSequentialMessages")
    /\ UNCHANGED <<mvars, svars, lvars, conversations, impl, message, outcome, conversationId,
                   sent, failed, reply, denyReason, dedupPassedAt, erroredBefore>>

\* the dispatcher attempts the next template: a successful send calls
\* incrementMessagesSent(conversationId), a failed one is tallied
SendMessage(e) ==
    /\ pc[e] = "sendSequentialMessages"
    /\ sent[e] + failed[e] < total[e]
    /\ \/ /\ conversations' = incrementMessagesSent(conversations, conversationId[e])
          /\ sent' = [sent EXCEPT ![e] = @ + 1]
          /\ UNCHANGED failed
       \/ /\ failed' = [failed EXCEPT ![e] = @ + 1]
          /\ UNCHANGED <<conversations, sent>>
    /\ UNCHANGED <<mvars, svars, lvars, impl, pc, message, outcome, conversationId, total,
                   calls, reply, denyReason, dedupPassedAt, erroredBefore>>

\* PASO 8: which operation reconciles the dispatcher's result
ReconcileAllOrNothing(resultSent, resultFailed, messagesLength) ==
    IF resultSent = messagesLength THEN "completeConversation"
    ELSE "failConversation"

Reconcile(resultSent, resultFailed, messagesLength) ==
    IF resultSent = messagesLength THEN "completeConversation"
    ELSE IF resultFailed = messagesLength THEN "failConversation"
    ELSE "completeConversation"

\* the dispatcher has attempted every template and returns {sent, failed, total}
SendSequentialMessagesReturns(e) ==
    /\ pc[e] = "sendSequentialMessages"
    /\ sent[e] + failed[e] = total[e]
    /\ Call(e, Reconcile(sent[e], failed[e], total[e]))
    /\ UNCHANGED <<mvars, svars, lvars, conversations, impl, message, outcome, conversationId,
                   total, sent, failed, reply, denyReason, dedupPassedAt, erroredBefore>>

\* the same, completing the sender's latest active conversation instead of
\* the one the run created
CompleteConversationReturnsLatest(e) ==
    /\ pc[e] = "completeConversation"
    /\ conversations' =
          completeConversation(conversations,
                               getActiveConversation(conversations, message[e].from))
    /\ Return(e, "completed")
    /\ UNCHANGED <<mvars, svars, lvars, impl, message, conversationId, total, sent, failed,
                   calls, reply, denyReason, dedupPassedAt, erroredBefore>>

\* await conversationService.completeConversation(conversationId)
CompleteConversationReturns(e) ==
    /\ pc[e] = "completeConversation"
    /\ conversations' = completeConversation(conversations, conversationId[e])
    /\ Return(e, "completed")
    /\ UNCHANGED <<mvars, svars, lvars, impl, message, conversationId, total, sent, failed,
                   calls, reply, denyReason, dedupPassedAt, erroredBefore>>

\* one reason for every failure
FailureReasonAllFailed(e) == "Todos los mensajes fallaron"

\* the reason failConversation is called with
FailureReason(e) ==
    IF total[e] = 0 THEN "Sin mensajes configurados"
    ELSE "Todos los mensajes fallaron"

\* await conversationService.failConversation(conversationId, reason)
FailConversationReturns(e) ==
    /\ pc[e] = "failConversation"
    /\ conversations' = failConversation(conversations, conversationId[e],
                                         FailureReason(e))
    /\ Return(e, IF total[e] = 0 THEN "empty" ELSE "failed")
    /\ UNCHANGED <<mvars, svars, lvars, impl, message, conversationId, total, sent, failed,
                   calls, reply, denyReason, dedupPassedAt, erroredBefore>>

\* the same, with a catch that fails the conversation the run had created
CallRejectsFailing(e) ==
    /\ pc[e] \in AwaitPcs
    /\ Return(e, "error")
    /\ conversations' = failConversation(conversations, conversationId[e], "error")
    /\ UNCHANGED <<mvars, svars, lvars, impl, message, conversationId, total,
                   sent, failed, calls, reply, denyReason, dedupPassedAt, erroredBefore>>

\* the awaited call rejects (storage failure, transport error, ...): the
\* catch of handleIncomingMessage logs the error and the run ends
CallRejects(e) ==
    /\ pc[e] \in AwaitPcs
    /\ Return(e, "error")
    /\ UNCHANGED <<mvars, svars, lvars, conversations, impl, message, conversationId, total,
                   sent, failed, calls, reply, denyReason, dedupPassedAt, erroredBefore>>

HandlerStep(e) ==
    \/ GetContactReturns(e)
    \/ GetActiveConversationReturns(e)
    \/ CheckRateLimitReturns(e)
    \/ ReplyReturns(e)
    \/ DetectCampaignReturns(e)
    \/ UpdateRateLimitReturns(e)
    \/ CreateConversationReturns(e)
    \/ GetCampaignMessagesReturns(e)
    \/ SendMessage(e)
    \/ SendSequentialMessagesReturns(e)
    \/ CompleteConversationReturns(e)
    \/ FailConversationReturns(e)
    \/ CallRejects(e)

Init == MatcherOff /\ HandlerInit /\ StoreOff /\ LifeConnected

\* events are handled as they arrive: runs interleave at their awaits
Next == \E e \in Events : MessageEvent(e) \/ HandlerStep(e)

Spec == Init /\ [][Next]_vars

\* the events of one user are handled one at a time
NextInTurn == \E e \in Events : MessageEventInTurn(e) \/ HandlerStep(e)

SpecInTurn == Init /\ [][NextInTurn]_vars

\* the event loop resumes every run whose awaited call has settled
SpecFair == Init /\ [][Next]_vars /\ \A e \in Events : WF_vars(HandlerStep(e))

(***************************************************************************)
(* The conversation store called directly.  Each function issues one       *)
(* db.query and awaits it; the database executes each statement            *)
(* atomically, queries in flight in any order.                             *)
(***************************************************************************)
\* statuses updateConversationStatus is called with: one that is not terminal,
\* one that is, and one that is not a status
StatusArgs == {"INITIATED", "CANCELLED", "PAUSED"}

StoreUser == "51911@c.us"
StoreReason == "Todos los mensajes fallaron"

\* a db.query in flight
Query(op, id, arg) == [op |-> op, id |-> id, arg |-> arg]

\* incrementMessagesSent queries on conversation id in flight
IncrementsInFlight(id) ==
    CopiesIn(Query("incrementMessagesSent", id, "none"), inflight)

\* the call issues its query and awaits it
Issue(q) ==
    /\ BagCardinality(inflight) < MaxInflight
    /\ inflight' = inflight (+) SetToBag({q})
    /\ sop' = Step("call", q.op)

StoreInit ==
    /\ MatcherOff
    /\ HandlerOff
    /\ LifeOff
    /\ inflight = EmptyBag
    /\ sop = Step("init", "none")
    /\ counted = [i \in 1..MaxRows |-> 0]

StoreOn == sop.step # "off"

\* createConversation(data)
CreateConversationCalled ==
    /\ StoreOn
    /\ Len(conversations) + CopiesIn(Query("createConversation", 0, "none"), inflight)
          < MaxRows
    /\ Issue(Query("createConversation", 0, "none"))
    /\ UNCHANGED <<mvars, hvars, lvars, conversations, counted>>

\* updateConversationStatus(conversationId, status): a status that is not
\* valid throws before the query
UpdateConversationStatusCalled ==
    /\ StoreOn
    /\ \E id \in 1..Len(conversations) : \E status \in StatusArgs :
          IF StatusIsValid(status)
          THEN Issue(Query("updateConversationStatus", id, status))
          ELSE /\ sop' = Step("throw", "updateConversationStatus")
               /\ UNCHANGED inflight
    /\ UNCHANGED <<mvars, hvars, lvars, conversations, counted>>

\* incrementMessagesSent(conversationId)
IncrementMessagesSentCalled ==
    /\ StoreOn
    /\ \E id \in 1..Len(conversations) :
          /\ counted[id] < MaxIncrements
          /\ Issue(Query("incrementMessagesSent", id, "none"))
          /\ counted' = [counted EXCEPT ![id] = @ + 1]
    /\ UNCHANGED <<mvars, hvars, lvars, conversations>>

\* completeConversation(conversationId)
CompleteConversationCalled ==
    /\ StoreOn
    /\ \E id \in 1..Len(conversations) :
          Issue(Query("completeConversation", id, "none"))
    /\ UNCHANGED <<mvars, hvars, lvars, conversations, counted>>

\* failConversation(conversationId, reason)
FailConversationCalled ==
    /\ StoreOn
    /\ \E id \in 1..Len(conversations) :
          Issue(Query("failConversation", id, StoreReason))
    /\ UNCHANGED <<mvars, hvars, lvars, conversations, counted>>

\* what the statement of query q does to the table
Execute(convs, q) ==
    CASE q.op = "createConversation" ->
            createConversation(convs, [userPhone |-> StoreUser, campaignId |-> 1])
      [] q.op = "updateConversationStatus" ->
            updateConversationStatus(convs, q.id, q.arg)
      [] q.op = "incrementMessagesSent" -> incrementMessagesSent(convs, q.id)
      [] q.op = "completeConversation" -> completeConversation(convs, q.id)
      [] q.op = "failConversation" -> failConversation(convs, q.id, q.arg)

\* the database executes one of the queries in flight; its call returns
QueryExecutes ==
    /\ StoreOn
    /\ \E q \in BagToSet(inflight) :
          /\ conversations' = Execute(conversations, q)
          /\ inflight' = inflight (-) SetToBag({q})
          /\ sop' = Step("exec", q.op)
    /\ UNCHANGED <<mvars, hvars, lvars, counted>>

StoreNext ==
    \/ CreateConversationCalled
    \/ UpdateConversationStatusCalled
    \/ IncrementMessagesSentCalled
    \/ CompleteConversationCalled
    \/ FailConversationCalled
    \/ QueryExecutes

SpecStore == StoreInit /\ [][StoreNext]_vars

(***************************************************************************)
(* failConversation on the rows the table may hold: whatever their status, *)
(* counter and metadata (session_metadata is a free-form map that other    *)
(* writers of the table may have put keys in)                              *)
(***************************************************************************)
\* the documents session_metadata may hold
MetadataValues ==
    {SqlNull} \cup
    {Json([failure_reason |-> r, source |-> o]) :
        r \in {"none", "Sin mensajes configurados"}, o \in {"none", "web"}}

\* the rows of the table: a terminal status has its end timestamp, a row with
\* messages sent has its last-message timestamp
StoredRows ==
    {r \in [user_phone : {StoreUser}, campaign_id : {1}, status : validStatuses,
            messages_sent : 0..MaxIncrements, conversation_ended_at : BOOLEAN,
            last_message_sent_at : BOOLEAN, session_metadata : MetadataValues] :
        /\ r.status \in TerminalStatuses => r.conversation_ended_at
        /\ r.last_message_sent_at <=> r.messages_sent > 0}

\* reason arguments: the two the pipeline passes, and the default null
FailReasons == {"Sin mensajes configurados", "Todos los mensajes fallaron", "null"}

\* no event is delivered
NoRuns ==
    /\ pc = [e \in Events |-> "off"]
    /\ message = [e \in Events |-> NoMessage]
    /\ outcome = [e \in Events |-> "pending"]
    /\ conversationId = [e \in Events |-> 0]
    /\ total = [e \in Events |-> -1]
    /\ sent = [e \in Events |-> 0]
    /\ failed = [e \in Events |-> 0]
    /\ calls = [e \in Events |-> <<>>]
    /\ reply = [e \in Events |-> "none"]
    /\ denyReason = [e \in Events |-> "none"]
    /\ dedupPassedAt = [e \in Events |-> -1]
    /\ erroredBefore = [e \in Events |-> {}]

RunsOff == impl = "base" /\ NoRuns

FailInit ==
    /\ MatcherOff
    /\ RunsOff
    /\ LifeOff
    /\ \E r \in StoredRows : conversations = <<r>>
    /\ inflight = EmptyBag
    /\ sop = Step("init", "failConversation")
    /\ counted = [i \in 1..MaxRows |-> 0]

\* failConversation(1, reason): its query has executed
FailConversationApplied ==
    /\ sop.op = "failConversation"
    /\ \E r \in FailReasons :
          /\ conversations' = failConversation(conversations, 1, r)
          /\ sop' = StepWith("applied", "failConversation", r)
    /\ UNCHANGED <<mvars, hvars, lvars, inflight, counted>>

FailNext == FailConversationApplied

SpecFail == FailInit /\ [][FailNext]_vars

(***************************************************************************)
(* The client lifecycle: WhatsAppService.initialize and destroy, the       *)
(* handlers setupEventHandlers registers on every Client it constructs,    *)
(* and the HTTP controls of server.js that call the service.  A call or a  *)
(* handler suspended at an await is a task; it goes on when what it awaits *)
(* settles, in any order with the other tasks, events and requests.        *)
(***************************************************************************)
maxReconnectAttempts == 3

\* a suspended call or handler: what runs, the await it is at, the Client
\* object whose promise it awaits, and the retries its initialize() chain has
\* made since reconnectAttempts was last reset
Task(op, at, c, retries) == [op |-> op, at |-> at, c |-> c, retries |-> retries]

NoTask == Task("none", "none", 0, 0)

\* the service object, the Client objects constructed and those still running
World ==
    [client |-> client, isReady |-> isReady, isInitializing |-> isInitializing,
     qrCodeData |-> qrCodeData, reconnectAttempts |-> reconnectAttempts,
     created |-> created, alive |-> alive]

Becomes(w) ==
    /\ client' = w.client
    /\ isReady' = w.isReady
    /\ isInitializing' = w.isInitializing
    /\ qrCodeData' = w.qrCodeData
    /\ reconnectAttempts' = w.reconnectAttempts
    /\ created' = w.created
    /\ alive' = w.alive

\* qrcode.toDataURL(qr): the QR as a base64 data URL
toDataURL(qr) == "data:image/png;base64"

\* an off-by-one in the retry condition
CanReconnectInclusive(w) == w.reconnectAttempts <= maxReconnectAttempts

\* this.reconnectAttempts < this.maxReconnectAttempts
CanReconnect(w) == w.reconnectAttempts < maxReconnectAttempts

\* the outcome of a call of initialize() up to its first await: the world it
\* leaves, the task it is suspended as (NoTask when it threw), the guard that
\* rejected it
Went(w, task, guard, retries) ==
    [w |-> w, task |-> task, guard |-> guard, retries |-> retries]

\* the catch block of initialize(): the base service rethrows, the
\* reconnecting one counts a retry and waits reconnectDelay while it may
initializeCatch(w, retries, guard) ==
    LET x == [w EXCEPT !.isInitializing = FALSE]
    IN IF impl = "reconnect" /\ CanReconnect(x)
       THEN Went([x EXCEPT !.reconnectAttempts = @ + 1],
                 Task("initialize", "delay", 0, retries + 1), guard, retries + 1)
       ELSE Went(x, NoTask, guard, retries)

\* initialize(): the two guards, then a new Client with the handlers on it,
\* and the await of client.initialize()
initialize(w, retries) ==
    IF w.isInitializing THEN initializeCatch(w, retries, "initializing")
    ELSE IF w.client # 0 THEN initializeCatch(w, retries, "client")
    ELSE LET c == w.created + 1
         IN Went([w EXCEPT !.isInitializing = TRUE, !.qrCodeData = "null",
                           !.client = c, !.created = c, !.alive = @ \cup {c}],
                 Task("initialize", "client.initialize", c, retries), "none", retries)

\* how a call of initialize() went on
HowWent(r) ==
    IF r.task = NoTask THEN "rejected"
    ELSE IF r.task.at = "delay" THEN "retrying"
    ELSE "awaiting"

\* the 'ready' handler
onReady(w) ==
    [w EXCEPT !.isReady = TRUE, !.isInitializing = FALSE, !.qrCodeData = "null",
              !.reconnectAttempts = IF impl = "reconnect" THEN 0 ELSE @]

\* the 'auth_failure' handler
onAuthFailure(w) == [w EXCEPT !.isReady = FALSE, !.isInitializing = FALSE]

\* the 'disconnected' handler up to its await
onDisconnected(w, reason) ==
    LET x == [w EXCEPT !.isReady = FALSE, !.qrCodeData = "null"]
    IN IF impl = "reconnect" /\ reason # "LOGOUT" /\ CanReconnect(x)
       THEN Went([x EXCEPT !.reconnectAttempts = @ + 1],
                 Task("disconnected", "delay", 0, 0), "none", 0)
       ELSE Went(x, NoTask, "none", 0)

\* destroy() once client.destroy() has resolved
destroyed(w) ==
    [w EXCEPT !.client = 0, !.isReady = FALSE, !.isInitializing = FALSE,
              !.qrCodeData = "null",
              !.reconnectAttempts = IF impl = "reconnect" THEN 0 ELSE @]

\* getStatus()
getStatus(w) == [isReady |-> w.isReady, isInitializing |-> w.isInitializing,
                 hasQR |-> w.qrCodeData # "null"]

\* one task fewer, one task more
Without(t) == tasks (-) SetToBag({t})

With(B, t) == IF t = NoTask THEN B ELSE B (+) SetToBag({t})

Room(B) == BagCardinality(B) < MaxTasks

\* the tasks with the retries of every chain counted anew
Recounted(B) ==
    LET Zero(t) == [t EXCEPT !.retries = 0]
        Z == {Zero(t) : t \in BagToSet(B)}
        Copies(z) == LET S == {t \in BagToSet(B) : Zero(t) = z}
                         Sum[T \in SUBSET S] ==
                             IF T = {} THEN 0
                             ELSE LET t == CHOOSE u \in T : TRUE
                                  IN CopiesIn(t, B) + Sum[T \ {t}]
                     IN Sum[S]
    IN [z \in Z |-> Copies(z)]

LifeOn == lop.op # "off"

Quiet == UNCHANGED <<mvars, hvars, svars, conversations>>

\* the history of the step just taken: a completed destroy() stops the
\* service, a call of initialize() by POST /start-whatsapp starts it again
Recorded ==
    stopped' = IF lop'.op = "destroy" /\ lop'.note = "completed" THEN TRUE
               ELSE IF lop'.op = "start-whatsapp" /\ lop'.init # "none" THEN FALSE
               ELSE stopped

\* a call of initialize() made in a step: the bound on Client objects
Within(r) == r.w.created <= MaxClients

(* ---- events of a Client object whose browser is running ---- *)
Reasons == {"LOGOUT", "NAVIGATION"}

\* 'qr': the handler awaits qrcode.toDataURL(qr)
Qr(c) ==
    /\ LifeOn /\ c \in alive /\ Room(tasks)
    /\ tasks' = With(tasks, Task("qr", "toDataURL", c, 0))
    /\ lop' = Did("qr", "awaiting", "none", "none")
    /\ UNCHANGED <<fields, created, alive>>
    /\ Quiet /\ Recorded

\* the conversion settles: the data URL is stored, or the error is logged
QrConverted(t) ==
    /\ t.op = "qr"
    /\ tasks' = Without(t)
    /\ \E ok \in BOOLEAN :
          /\ qrCodeData' = IF ok THEN toDataURL(t.c) ELSE qrCodeData
          /\ lop' = Did("qr", IF ok THEN "stored" ELSE "logged", "none", "none")
    /\ UNCHANGED <<client, isReady, isInitializing, reconnectAttempts, created, alive>>
    /\ Quiet /\ Recorded

\* 'ready'; reading this.client.info throws when the service holds no client
Ready(c) ==
    /\ LifeOn /\ c \in alive
    /\ Becomes(onReady(World))
    /\ tasks' = IF impl = "reconnect" THEN Recounted(tasks) ELSE tasks
    /\ lop' = Did("ready", IF client = 0 THEN "threw" ELSE "done", "none", "none")
    /\ Quiet /\ Recorded

\* 'auth_failure'
AuthFailure(c) ==
    /\ LifeOn /\ c \in alive
    /\ Becomes(onAuthFailure(World))
    /\ lop' = Did("auth_failure", "done", "none", "none")
    /\ UNCHANGED tasks
    /\ Quiet /\ Recorded

\* 'disconnected'
Disconnected(c) ==
    /\ LifeOn /\ c \in alive
    /\ \E reason \in Reasons :
          LET r == onDisconnected(World, reason)
          IN /\ r.task # NoTask => Room(tasks)
             /\ Becomes(r.w)
             /\ tasks' = With(tasks, r.task)
             /\ lop' = Did("disconnected", IF r.task = NoTask THEN "done" ELSE "reconnecting",
                           "none", "none")
    /\ Quiet /\ Recorded

(* ---- the reconnection paths of the reconnecting service ---- *)
\* the call of initialize() that ends a reconnection path
Reinitialize(t, w) ==
    LET r == initialize(w, IF t.op = "initialize" THEN t.retries ELSE 0)
    IN /\ Within(r)
       /\ Becomes(r.w)
       /\ tasks' = With(Without(t), r.task)
       /\ lop' = DidCall("initialize", t.op, HowWent(r), r.guard, r.retries)

\* delay(reconnectDelay) elapses: a client held is destroyed first, else
\* initialize() is called at once
DelayElapses(t) ==
    /\ t.at = "delay"
    /\ IF client # 0
       THEN /\ tasks' = With(Without(t), Task(t.op, "client.destroy", client, t.retries))
            /\ lop' = Did(t.op, "destroying", "none", "none")
            /\ UNCHANGED <<fields, created, alive>>
       ELSE Reinitialize(t, World)
    /\ Quiet /\ Recorded

\* client.destroy() of a reconnection path settles: its error is ignored,
\* this.client becomes null, and initialize() is called
ReconnectDestroySettles(t) ==
    /\ t.at = "client.destroy" /\ t.op \in {"initialize", "disconnected"}
    /\ \E ok \in BOOLEAN :
          Reinitialize(t, [World EXCEPT !.client = 0,
                                        !.alive = IF ok THEN @ \ {t.c} ELSE @])
    /\ Quiet /\ Recorded

\* client.initialize() settles: initialize() returns, or its catch runs
ClientInitializeSettles(t) ==
    /\ t.at = "client.initialize"
    /\ \/ /\ tasks' = Without(t)
          /\ lop' = Did("initialize", "client.initialize", "resolved", "none")
          /\ UNCHANGED <<fields, created, alive>>
       \/ LET r == initializeCatch(World, t.retries, "none")
          IN /\ Becomes(r.w)
             /\ tasks' = With(Without(t), r.task)
             /\ lop' = DidCall("initialize", "client.initialize", HowWent(r), "none",
                               r.retries)
    /\ Quiet /\ Recorded

(* ---- destroy() ---- *)
\* destroy() up to its await: nothing to do without a client
destroy(w) == IF w.client # 0 THEN Task("destroy", "client.destroy", w.client, 0) ELSE NoTask

\* client.destroy() of destroy() settles: the fields are cleared, or destroy()
\* throws with the fields as they are
DestroySettles(t) ==
    /\ t.at = "client.destroy" /\ t.op = "destroy"
    /\ \/ /\ Becomes(destroyed([World EXCEPT !.alive = @ \ {t.c}]))
          /\ tasks' = IF impl = "reconnect" THEN Recounted(Without(t)) ELSE Without(t)
          /\ lop' = Did("destroy", "completed", "none", "none")
       \/ /\ tasks' = Without(t)
          /\ lop' = Did("destroy", "threw", "none", "none")
          /\ UNCHANGED <<fields, created, alive>>
    /\ Quiet /\ Recorded

(* ---- HTTP controls ---- *)
Roles == {"", "admin"}

\* POST /start-whatsapp
StartWhatsapp ==
    /\ LifeOn
    /\ \E role \in Roles :
          LET status == getStatus(World)
              r == initialize(World, 0)
          IN IF role = ""
             THEN /\ lop' = Did("start-whatsapp", "El campo role es requerido", "none", "none")
                  /\ UNCHANGED <<fields, created, alive, tasks>>
             ELSE IF status.isReady
             THEN /\ lop' = Did("start-whatsapp", "WhatsApp ya esta conectado", "none", "none")
                  /\ UNCHANGED <<fields, created, alive, tasks>>
             ELSE IF status.isInitializing
             THEN /\ lop' = Did("start-whatsapp", "WhatsApp se esta inicializando", "none", "none")
                  /\ UNCHANGED <<fields, created, alive, tasks>>
             ELSE /\ Within(r)
                  /\ r.task # NoTask => Room(tasks)
                  /\ Becomes(r.w)
                  /\ tasks' = With(tasks, r.task)
                  /\ lop' = DidCall("start-whatsapp", "Inicializacion de WhatsApp en progreso",
                                    HowWent(r), r.guard, r.retries)
    /\ Quiet /\ Recorded

\* a route calls whatsappService.destroy()
CallsDestroy(route) ==
    /\ destroy(World) # NoTask => Room(tasks)
    /\ tasks' = With(tasks, destroy(World))
    /\ lop' = Did(route, IF destroy(World) = NoTask THEN "returned" ELSE "destroying",
                  "none", "none")
    /\ UNCHANGED <<fields, created, alive>>

\* POST /stop-whatsapp
StopWhatsapp ==
    /\ LifeOn
    /\ LET status == getStatus(World)
       IN IF ~status.isReady /\ ~status.isInitializing
          THEN /\ lop' = Did("stop-whatsapp", "WhatsApp ya esta detenido", "none", "none")
               /\ UNCHANGED <<fields, created, alive, tasks>>
          ELSE CallsDestroy("stop-whatsapp")
    /\ Quiet /\ Recorded

\* POST /cleanup-session
CleanupSession ==
    /\ LifeOn
    /\ LET status == getStatus(World)
       IN IF status.isReady \/ status.isInitializing
          THEN CallsDestroy("cleanup-session")
          ELSE /\ lop' = Did("cleanup-session", "skipped", "none", "none")
               /\ UNCHANGED <<fields, created, alive, tasks>>
    /\ Quiet /\ Recorded

\* POST /force-cleanup
ForceCleanup ==
    /\ LifeOn
    /\ CallsDestroy("force-cleanup")
    /\ Quiet /\ Recorded

LifeInit ==
    /\ MatcherOff
    /\ StoreOff
    /\ conversations = <<>>
    /\ impl \in Impls
    /\ NoRuns
    /\ Constructed
    /\ created = 0
    /\ alive = {}
    /\ tasks = EmptyBag
    /\ lop = Did("init", "none", "none", "none")
    /\ stopped = FALSE

ClientEvent(c) == Qr(c) \/ Ready(c) \/ AuthFailure(c) \/ Disconnected(c)

TaskStep(t) ==
    \/ QrConverted(t)
    \/ DelayElapses(t)
    \/ ReconnectDestroySettles(t)
    \/ ClientInitializeSettles(t)
    \/ DestroySettles(t)

Request == StartWhatsapp \/ StopWhatsapp \/ CleanupSession \/ ForceCleanup

LifeNext ==
    \/ \E c \in 1..MaxClients : ClientEvent(c)
    \/ \E t \in BagToSet(tasks) : TaskStep(t)
    \/ Request

SpecLife == LifeInit /\ [][LifeNext]_vars

(***************************************************************************)
(* Properties of the pipeline                                              *)
(***************************************************************************)
\* the rows of a user that are INITIATED or IN_PROGRESS
NonTerminalOf(convs, userPhone) ==
    {i \in 1..Len(convs) :
        convs[i].user_phone = userPhone /\ convs[i].status \notin TerminalStatuses}

\* the run's dispatch returned and the operation reconciling it returned too
Reconciled(e) == total[e] >= 1 /\ outcome[e] \in {"completed", "failed"}

\* C7: after a dispatch of total >= 1 templates that returns, sent = total
\* ends the conversation COMPLETED, failed = total ends it FAILED with reason
\* "Todos los mensajes fallaron", and every partial result ends it COMPLETED.
C7_Reconciliation ==
    \A e \in Events :
        /\ (pc[e] \in {"completeConversation", "failConversation"} /\ total[e] >= 1)
              => (pc[e] = "failConversation" <=> failed[e] = total[e])
        /\ Reconciled(e) =>
              LET c == conversations[conversationId[e]]
              IN  /\ sent[e] + failed[e] = total[e]
                  /\ IF failed[e] = total[e]
                     THEN /\ c.status = "FAILED"
                          /\ FailureReasonOf(c) = "Todos los mensajes fallaron"
                     ELSE /\ c.status = "COMPLETED"
                          /\ FailureReasonOf(c) = "none"

\* C7 witness: one conversation ended FAILED because every send failed, and
\* another ended COMPLETED although one of its two sends failed
C7_Witness ==
    \E e, o \in Events :
        /\ Reconciled(e) /\ failed[e] = total[e]
        /\ conversations[conversationId[e]].status = "FAILED"
        /\ Reconciled(o) /\ sent[o] = 1 /\ failed[o] = 1
        /\ conversations[conversationId[o]].status = "COMPLETED"

\* C8: when the events of a user are handled one at a time, the user never
\* has more than one conversation that is INITIATED or IN_PROGRESS.
C8_OneActivePerUser ==
    \A u \in UserPhones : Cardinality(NonTerminalOf(conversations, u)) <= 1

\* C8 witness: a user with two conversations, the earlier one ended and the
\* later one active
C8_Witness ==
    \E u \in UserPhones :
        \E i, j \in 1..Len(conversations) :
            /\ i < j
            /\ conversations[i].user_phone = u /\ conversations[j].user_phone = u
            /\ conversations[i].status \in TerminalStatuses
            /\ conversations[j].status \in ActiveStatuses

\* a run that was discarded at the dedup check
Discarded(e) == outcome[e] = "dedup"

\* C9: when getActiveConversation returns while the sender has an INITIATED or
\* IN_PROGRESS conversation, the run ends there: it has called nothing but
\* getContact and getActiveConversation (no rate limiter, resolver, dispatcher
\* or store write), created no conversation, replied nothing, and the table is
\* as it was.
C9_DedupDiscards ==
    /\ [](\A e \in Events :
             Discarded(e) =>
                /\ pc[e] = "done"
                /\ calls[e] = <<"getContact", "getActiveConversation">>
                /\ conversationId[e] = 0
                /\ reply[e] = "none")
    /\ [][\A e \in Events :
             (/\ pc[e] = "getActiveConversation"
              /\ pc'[e] # pc[e]
              /\ outcome'[e] # "error"
              /\ NonTerminalOf(conversations, message[e].from) # {})
             => /\ Discarded(e)'
                /\ conversations' = conversations
                /\ calls'[e] = calls[e]]_vars

\* C9 witness: an event discarded while the sender's earlier conversation,
\* created by a run still under way, is INITIATED
C9_Witness ==
    \E e, o \in Events :
        /\ Discarded(e)
        /\ message[o].from = message[e].from
        /\ pc[o] \in AwaitPcs
        /\ conversationId[o] # 0
        /\ conversations[conversationId[o]].status = "INITIATED"

\* C10: createConversation re-checks nothing: whenever it returns, the sender
\* has one more non-terminal conversation than before, whatever conversations
\* the sender already has.  So two runs of one user that both pass the dedup
\* check before either creates leave the user with two at once (the witness).
C10_CreateIsUnconditional ==
    [][\A e \in Events :
          (pc[e] = "createConversation" /\ pc'[e] = "getCampaignMessages")
          => Cardinality(NonTerminalOf(conversations', message[e].from))
               = Cardinality(NonTerminalOf(conversations, message[e].from)) + 1]_vars

\* C10 witness: two runs of one user, each of which passed the dedup check
\* before either of the two conversations was created, and whose conversations
\* are both non-terminal
C10_Witness ==
    \E e, o \in Events :
        /\ e # o
        /\ message[e].from = message[o].from
        /\ conversationId[e] # 0 /\ conversationId[o] # 0
        /\ dedupPassedAt[e] >= 0 /\ dedupPassedAt[o] >= 0
        /\ dedupPassedAt[e] < conversationId[e] /\ dedupPassedAt[e] < conversationId[o]
        /\ dedupPassedAt[o] < conversationId[e] /\ dedupPassedAt[o] < conversationId[o]
        /\ conversations[conversationId[e]].status \in ActiveStatuses
        /\ conversations[conversationId[o]].status \in ActiveStatuses
        /\ Cardinality(NonTerminalOf(conversations, message[e].from)) = 2

\* the conversation the run created has ended
Ended(e) ==
    /\ conversationId[e] # 0
    /\ conversations[conversationId[e]].status \in TerminalStatuses

\* C11: once createConversation has returned an id to a run, that conversation
\* eventually has a terminal status - also when getCampaignMessages, or a
\* later call, throws.
C11_EventuallyTerminal ==
    \A e \in Events : (conversationId[e] # 0) ~> Ended(e)

\* C11, without the calls that throw: a run that returned without an error
\* left the conversation it created ended
C11_EndedUnlessThrown ==
    \A e \in Events :
        (pc[e] = "done" /\ conversationId[e] # 0 /\ outcome[e] # "error")
            => Ended(e)

(***************************************************************************)
(* Properties of the conversation store                                    *)
(***************************************************************************)
\* the step executes an incrementMessagesSent query on conversation id
IncrementExecuted(id) == IncrementsInFlight(id)' < IncrementsInFlight(id)

\* C12: the incrementMessagesSent calls on one conversation, however their
\* queries interleave, each raise messages_sent by exactly one (the counter is
\* the number of calls issued less those still in flight: no update is lost),
\* and after each of them the status is not INITIATED.
C12_IncrementsCounted ==
    /\ [](\A id \in 1..Len(conversations) :
             conversations[id].messages_sent + IncrementsInFlight(id) = counted[id])
    /\ [][\A id \in 1..Len(conversations) :
             IncrementExecuted(id) =>
                /\ conversations'[id].messages_sent
                      = conversations[id].messages_sent + 1
                /\ conversations'[id].status # "INITIATED"]_vars

\* C12 witness: two calls on one conversation were in flight together; the
\* query of one has just executed, the other's has not yet
C12_Witness ==
    \E id \in 1..Len(conversations) :
        /\ sop = Step("exec", "incrementMessagesSent")
        /\ counted[id] = 2
        /\ IncrementsInFlight(id) = 1
        /\ conversations[id].messages_sent = 1
        /\ conversations[id].status = "IN_PROGRESS"

\* conversation id has a terminal status
IsTerminal(convs, id) == convs[id].status \in TerminalStatuses

\* C13: incrementMessagesSent on a conversation whose status is COMPLETED,
\* FAILED or CANCELLED leaves the status terminal.
C13_IncrementKeepsTerminal ==
    [][\A id \in 1..Len(conversations) :
          (IncrementExecuted(id) /\ IsTerminal(conversations, id))
             => IsTerminal(conversations', id)]_vars

\* C13 on conversations that have not ended: the increment makes the status
\* IN_PROGRESS
C13_IncrementStartsProgress ==
    [][\A id \in 1..Len(conversations) :
          IncrementExecuted(id) => conversations'[id].status = "IN_PROGRESS"]_vars

\* C14: in every state the store's operations reach, conversation_ended_at is
\* set if and only if the status is COMPLETED, FAILED or CANCELLED.
C14_EndedIffTerminal ==
    \A id \in 1..Len(conversations) :
        conversations[id].conversation_ended_at <=> IsTerminal(conversations, id)

\* C14, the half that holds: a terminal status always has its end timestamp
C14_TerminalHasEnded ==
    \A id \in 1..Len(conversations) :
        IsTerminal(conversations, id) => conversations[id].conversation_ended_at

\* C15: once a conversation's status is COMPLETED, FAILED or CANCELLED, no
\* store operation changes its status.
C15_TerminalIsFinal ==
    [][\A id \in 1..Len(conversations) :
          IsTerminal(conversations, id)
             => conversations'[id].status = conversations[id].status]_vars

\* updateConversationStatus queries in flight
StatusUpdatesInFlight ==
    {q \in BagToSet(inflight) : q.op = "updateConversationStatus"}

\* C16: updateConversationStatus with a status outside the five recognised
\* ones throws before any query: the call leaves the table and the queries in
\* flight as they were, so no such status is ever on its way to, or in, the
\* table.
C16_InvalidStatusRejected ==
    /\ [](/\ \A q \in StatusUpdatesInFlight : q.arg \in validStatuses
          /\ \A id \in 1..Len(conversations) :
                conversations[id].status \in validStatuses)
    /\ [][sop' = Step("throw", "updateConversationStatus")
             => (conversations' = conversations /\ inflight' = inflight)]_vars

\* C16 witness: the call has thrown on a conversation that had ended, with
\* another status update still in flight
C16_Witness ==
    /\ sop = Step("throw", "updateConversationStatus")
    /\ StatusUpdatesInFlight # {}
    /\ \E id \in 1..Len(conversations) :
          /\ conversations[id].status = "COMPLETED"
          /\ conversations[id].conversation_ended_at

(***************************************************************************)
(* Further properties of the pipeline                                      *)
(***************************************************************************)
\* how many times the run has called op
TimesCalled(e, op) == Cardinality({i \in 1..Len(calls[e]) : calls[e][i] = op})

\* the event's message gets through the fromMe, group and empty-text filters
PassesFilters(m) == ~m.fromMe /\ ~IsGroup(m.from) /\ ~IsBlank(m.body)

\* C17: updateRateLimit is called at most once per event, and only by a run
\* whose message passed the filters, that passed the dedup check, was allowed
\* by the rate check and got a campaign from the resolver (it is the call right
\* after detectCampaign); a run that ends at a filter, at the dedup check, at
\* a denial or with no campaign match has not called it.
C17_ChargedOnlyOnMatch ==
    \A e \in Events :
        /\ TimesCalled(e, "updateRateLimit") <= 1
        /\ TimesCalled(e, "updateRateLimit") = 1 =>
              /\ PassesFilters(message[e])
              /\ dedupPassedAt[e] >= 0
              /\ denyReason[e] = "none" /\ reply[e] = "none"
              /\ Len(calls[e]) >= 5
              /\ SubSeq(calls[e], 1, 5) =
                    <<"getContact", "getActiveConversation", "checkRateLimit",
                      "detectCampaign", "updateRateLimit">>
        /\ outcome[e] \in {"fromMe", "group", "blank", "dedup", "denied", "nomatch"}
              => TimesCalled(e, "updateRateLimit") = 0

\* C17 witness: one event went through the whole pipeline and was charged
\* once, another ended with no campaign match and was not charged
C17_Witness ==
    \E e, o \in Events :
        /\ outcome[e] = "completed" /\ TimesCalled(e, "updateRateLimit") = 1
        /\ outcome[o] = "nomatch" /\ TimesCalled(o, "updateRateLimit") = 0
        /\ TimesCalled(o, "detectCampaign") = 1

\* C18: when the matched campaign has no templates, the run calls
\* failConversation right after getCampaignMessages, never the dispatcher and
\* never completeConversation, and once failConversation has returned the
\* conversation is FAILED with failure_reason "Sin mensajes configurados".
C18_EmptyCampaignFails ==
    \A e \in Events :
        total[e] = 0 =>
            /\ calls[e][Len(calls[e])] = "failConversation"
            /\ calls[e][Len(calls[e]) - 1] = "getCampaignMessages"
            /\ TimesCalled(e, "sendSequentialMessages") = 0
            /\ TimesCalled(e, "completeConversation") = 0
            /\ sent[e] = 0 /\ failed[e] = 0
            /\ pc[e] \in {"failConversation", "done"}
            /\ outcome[e] \in {"pending", "empty", "error"}
            /\ outcome[e] = "empty" =>
                  LET c == conversations[conversationId[e]]
                  IN  /\ c.status = "FAILED"
                      /\ FailureReasonOf(c) = "Sin mensajes configurados"
                      /\ c.conversation_ended_at
                      /\ c.messages_sent = 0

\* C18 witness: a run whose campaign had no templates has returned, its
\* conversation FAILED for that reason
C18_Witness ==
    \E e \in Events :
        /\ total[e] = 0 /\ outcome[e] = "empty"
        /\ conversations[conversationId[e]].status = "FAILED"
        /\ FailureReasonOf(conversations[conversationId[e]]) = "Sin mensajes configurados"

\* the run was denied by the rate check for a reason the mapping does not have
DeniedUnmapped(e) ==
    denyReason[e] # "none" /\ denyReason[e] \notin MappedReasons(impl)

\* C19: on a rate-limit denial whose reason is not in the reason-to-message
\* mapping, message.reply is not called: the user gets no reply.
C19_UnmappedDenyIsSilent ==
    \A e \in Events :
        DeniedUnmapped(e) => (reply[e] = "none" /\ TimesCalled(e, "reply") = 0)

\* C19 in the service with automatic reconnection: a denial is never replied
\* to, whatever its reason
C19_ReconnectNeverReplies ==
    impl = "reconnect" =>
        \A e \in Events : reply[e] = "none" /\ TimesCalled(e, "reply") = 0

\* C19, what whatsapp.service.js does: every denial is replied to, an unmapped
\* reason with the default message
C19_BaseAlwaysReplies ==
    impl = "base" =>
        \A e \in Events :
            denyReason[e] # "none" =>
                /\ TimesCalled(e, "reply") = 1
                /\ reply[e] = IF denyReason[e] \in MappedReasons(impl)
                              THEN denyReason[e] ELSE "DEFAULT_MESSAGE"

\* event o, delivered after run e had ended in the catch, was discarded at the
\* dedup check, and the sender's only active conversation is the one run e
\* created and left behind
BlockedBy(o, e) ==
    /\ e \in erroredBefore[o]
    /\ outcome[o] = "dedup"
    /\ message[o].from = message[e].from
    /\ conversationId[e] # 0
    /\ NonTerminalOf(conversations, message[o].from) = {conversationId[e]}

\* C20: whatever call throws, handleIncomingMessage returns normally, and an
\* event delivered afterwards goes through the pipeline: it is not stopped
\* because of the event that failed.
C20_FailureBlocksNoLaterEvent ==
    /\ \A e \in Events : outcome[e] = "error" => pc[e] = "done"
    /\ \A o, e \in Events : ~BlockedBy(o, e)

\* C20, the part about the handler: a run in which a call threw has returned,
\* and every call it had issued before is on its record
C20_HandlerReturns ==
    \A e \in Events :
        outcome[e] = "error" => (pc[e] = "done" /\ Len(calls[e]) >= 1)

\* C20 for failures before createConversation: no later event is stopped
\* because of a run that failed without having created a conversation
C20_EarlyFailureBlocksNone ==
    \A o, e \in Events :
        (e \in erroredBefore[o] /\ conversationId[e] = 0 /\ outcome[o] = "dedup")
            => \E i \in NonTerminalOf(conversations, message[o].from) :
                  \E r \in Events \ {e} : conversationId[r] = i

(***************************************************************************)
(* Further properties of the matcher                                       *)
(***************************************************************************)
\* the text contains a synonym of some group
ContainsSynonym ==
    /\ triggerKeywords.synonyms.kind = "object"
    /\ \E g \in 1..Len(triggerKeywords.synonyms.val) : GroupContains(g)

\* C21: a non-empty text that contains no excluded phrase and no exact-match
\* phrase but at least one keyword yields KEYWORD with the first keyword in
\* listed order that it contains, also when it contains a synonym; a SYNONYM
\* result is returned only when no keyword is contained.
C21_KeywordBeforeSynonym ==
    /\ (/\ Called
        /\ Truthy(messageText)
        /\ triggerKeywords.kind = "object"
        /\ ~ContainsAny(triggerKeywords.excluded_words)
        /\ ~ContainsAny(triggerKeywords.exact_matches)
        /\ ContainsAny(triggerKeywords.keywords))
       => result = [type |-> "KEYWORD",
                    matched |-> triggerKeywords.keywords.val[
                                    FirstContained(triggerKeywords.keywords)].val]
    /\ (Called /\ result.type = "SYNONYM")
          => ~ContainsAny(triggerKeywords.keywords)

\* C21 on rule sets whose entries are all strings
C21_KeywordBeforeSynonymOnPhrases ==
    (Called /\ PhrasesOnly(triggerKeywords)) => C21_KeywordBeforeSynonym

(***************************************************************************)
(* Further properties of the pipeline (filters, denials, replies)          *)
(***************************************************************************)
\* the text is absent, empty or made of white space only
BlankText(body) ==
    body.kind # "string" \/ \A i \in 1..Len(body.val) : body.val[i] \in WhiteSpace

FilterOutcomes == {"fromMe", "group", "blank"}

\* C22: an event with fromMe set, one from a group id, and one whose text is
\* empty or white space only is discarded at once: the run has returned having
\* called nothing (not even getContact), replied nothing and created nothing,
\* and its delivery left the table as it was.
C22_FilteredSilently ==
    /\ [](\A e \in Events :
             (/\ pc[e] # "idle"
              /\ \/ message[e].fromMe
                 \/ message[e].from \in GroupIds
                 \/ BlankText(message[e].body))
             => /\ pc[e] = "done"
                /\ outcome[e] \in FilterOutcomes
                /\ calls[e] = <<>>
                /\ reply[e] = "none"
                /\ conversationId[e] = 0)
    /\ [][\A e \in Events :
             (pc[e] = "idle" /\ outcome'[e] \in FilterOutcomes)
                => conversations' = conversations]_vars

\* C22 witness: a white-space-only text and a group or own message, both
\* discarded
C22_Witness ==
    \E e, o \in Events :
        /\ outcome[e] = "blank" /\ message[e].body = JsStr(<<" ">>) /\ calls[e] = <<>>
        /\ outcome[o] \in {"group", "fromMe"} /\ calls[o] = <<>>

\* the rate check denied the run's message
Denied(e) == denyReason[e] # "none"

\* C23: when the rate limiter denies, the run stops: it never queries the
\* campaign resolver, never calls updateRateLimit, creates no conversation and
\* never invokes the dispatcher; at most it replies and returns.
C23_DenyStops ==
    \A e \in Events :
        Denied(e) =>
            /\ pc[e] \in {"reply", "done"}
            /\ outcome[e] \in {"pending", "denied", "error"}
            /\ calls[e] \in {<<"getContact", "getActiveConversation", "checkRateLimit">>,
                             <<"getContact", "getActiveConversation", "checkRateLimit",
                               "reply">>}
            /\ TimesCalled(e, "detectCampaign") = 0
            /\ TimesCalled(e, "updateRateLimit") = 0
            /\ TimesCalled(e, "createConversation") = 0
            /\ TimesCalled(e, "sendSequentialMessages") = 0
            /\ conversationId[e] = 0

\* C23 witness: a denied run has returned while another run, allowed, has
\* created its conversation
C23_Witness ==
    \E e, o \in Events :
        /\ Denied(e) /\ outcome[e] = "denied"
        /\ ~Denied(o) /\ conversationId[o] # 0

\* the run has called message.reply
Replied(e) == reply[e] # "none" \/ TimesCalled(e, "reply") >= 1

\* C24: message.reply is called only on the rate-limit-deny path: a run that
\* replied was denied by the rate check and replied right after it, once; a
\* run that stopped at the dedup check, at no campaign match or at the empty
\* template list has not replied.
C24_ReplyOnlyOnDeny ==
    \A e \in Events :
        /\ Replied(e) =>
              /\ Denied(e)
              /\ calls[e] = <<"getContact", "getActiveConversation",
                              "checkRateLimit", "reply">>
        /\ (outcome[e] \in {"dedup", "nomatch", "empty"} \/ total[e] = 0)
              => ~Replied(e)

\* C24 witness: a denied run has replied, and a run that ended with no
\* campaign match has not
C24_Witness ==
    \E e, o \in Events :
        /\ outcome[e] = "denied" /\ Replied(e)
        /\ outcome[o] = "nomatch" /\ ~Replied(o)

(***************************************************************************)
(* Properties of failConversation                                          *)
(***************************************************************************)
\* the value of key k in a row's metadata, "none" when the column is NULL or
\* the map has no such key
MetaValue(c, k) ==
    IF c.session_metadata.isNull THEN "none" ELSE c.session_metadata.doc[k]

\* C25: failConversation sets status FAILED and the end timestamp, sets the
\* metadata key failure_reason to the reason given and leaves every other
\* metadata key with the value it had; messages_sent (like the other columns)
\* is unchanged.
C25_FailMergesReason ==
    [][sop'.step = "applied" =>
          LET c == conversations[1]
              d == conversations'[1]
          IN  /\ d.status = "FAILED"
              /\ d.conversation_ended_at
              /\ ~d.session_metadata.isNull
              /\ MetaValue(d, "failure_reason") = sop'.arg
              /\ \A k \in MetaKeys \ {"failure_reason"} :
                    MetaValue(d, k) = MetaValue(c, k)
              /\ d.messages_sent = c.messages_sent
              /\ d.last_message_sent_at = c.last_message_sent_at
              /\ d.user_phone = c.user_phone
              /\ d.campaign_id = c.campaign_id]_vars

\* C25 witness: a conversation with messages sent whose metadata has another
\* key has been failed: the other key is there, beside the reason given
C25_Witness ==
    /\ sop = StepWith("applied", "failConversation", "Todos los mensajes fallaron")
    /\ Len(conversations) = 1
    /\ conversations[1].status = "FAILED"
    /\ conversations[1].messages_sent = 2
    /\ MetaValue(conversations[1], "source") = "web"
    /\ MetaValue(conversations[1], "failure_reason") = "Todos los mensajes fallaron"

(***************************************************************************)
(* Further properties of the pipeline (errors, order, ownership)           *)
(***************************************************************************)
\* the run ended in the catch after it had created its conversation
FailedAfterCreate(e) == outcome[e] = "error" /\ conversationId[e] # 0

\* C26: when a call after createConversation throws, the run issues no further
\* store write and no further call: the step into the catch leaves the table
\* as it was, and the conversation stays as the run left it - INITIATED, or
\* IN_PROGRESS if messages were sent - with no end timestamp and no failure
\* reason; it is not marked FAILED.
C26_ErrorLeavesConversation ==
    /\ [](\A e \in Events :
             FailedAfterCreate(e) =>
                LET c == conversations[conversationId[e]]
                IN  /\ pc[e] = "done"
                    /\ c.status = IF c.messages_sent = 0 THEN "INITIATED"
                                  ELSE "IN_PROGRESS"
                    /\ c.messages_sent = sent[e]
                    /\ ~c.conversation_ended_at
                    /\ FailureReasonOf(c) = "none")
    /\ [][\A e \in Events :
             /\ (outcome[e] # "error" /\ outcome'[e] = "error")
                   => (conversations' = conversations /\ calls'[e] = calls[e])
             /\ outcome[e] = "error"
                   => (outcome'[e] = "error" /\ calls'[e] = calls[e])]_vars

\* C26 witness: the dispatcher threw after one message had been sent: the
\* run has ended, its conversation is IN_PROGRESS
C26_Witness ==
    \E e \in Events :
        /\ FailedAfterCreate(e)
        /\ calls[e][Len(calls[e])] = "sendSequentialMessages"
        /\ sent[e] = 1
        /\ conversations[conversationId[e]].status = "IN_PROGRESS"

\* the steps of the pipeline up to the dispatcher, in the order of the spec
OrderedSteps ==
    <<"getActiveConversation", "checkRateLimit", "detectCampaign",
      "updateRateLimit", "createConversation", "getCampaignMessages",
      "sendSequentialMessages">>

IsStep(op) == op \notin {"getContact", "reply"}

\* the run's calls of pipeline steps, in the order it issued them
StepsOf(e) == SelectSeq(calls[e], IsStep)

\* C27: the calls of a run are a prefix of getActiveConversation,
\* checkRateLimit, detectCampaign, updateRateLimit, createConversation,
\* getCampaignMessages, sendSequentialMessages, completeConversation or
\* failConversation (failConversation alone may follow getCampaignMessages
\* directly); each call is issued while no other call of the run is pending,
\* and a run that has returned issues no call.
C27_StepsInOrder ==
    /\ [](\A e \in Events :
             /\ \E n \in 0..Len(OrderedSteps) :
                   \/ StepsOf(e) = SubSeq(OrderedSteps, 1, n)
                   \/ /\ n = Len(OrderedSteps)
                      /\ \E t \in {"completeConversation", "failConversation"} :
                            StepsOf(e) = Append(OrderedSteps, t)
                   \/ /\ n = Len(OrderedSteps) - 1
                      /\ StepsOf(e) = Append(SubSeq(OrderedSteps, 1, n),
                                             "failConversation")
             /\ pc[e] \in AwaitPcs => pc[e] = calls[e][Len(calls[e])])
    /\ [][\A e \in Events :
             /\ calls'[e] # calls[e] =>
                   /\ Len(calls'[e]) = Len(calls[e]) + 1
                   /\ pc[e] # "done"
                   /\ pc'[e] = calls'[e][Len(calls'[e])]
             /\ pc[e] = "done" => (pc'[e] = "done" /\ calls'[e] = calls[e])]_vars

\* C27 witness: one run went through every step and completed its
\* conversation, another left at the dedup check having called nothing after
C27_Witness ==
    \E e, o \in Events :
        /\ StepsOf(e) = Append(OrderedSteps, "completeConversation")
        /\ outcome[e] = "completed"
        /\ outcome[o] = "dedup"
        /\ StepsOf(o) = <<"getActiveConversation">>

\* the runs that created conversation i
CreatorsOf(i) == {e \in Events : conversationId[e] = i}

\* the step is a step of run e
Acts(e) ==
    <<pc[e], sent[e], failed[e]>>' # <<pc[e], sent[e], failed[e]>>

\* C28: a run creates at most one conversation and issues at most one of
\* completeConversation and failConversation; every conversation has exactly
\* one run that created it, and a row is written only by steps of that run:
\* a run never writes to a conversation it did not create.
C28_OneConversationPerEvent ==
    /\ [](/\ \A e \in Events :
                /\ TimesCalled(e, "createConversation") <= 1
                /\ TimesCalled(e, "completeConversation")
                      + TimesCalled(e, "failConversation") <= 1
                /\ conversationId[e] \in 0..Len(conversations)
                /\ conversationId[e] # 0 => TimesCalled(e, "createConversation") = 1
          /\ \A i \in 1..Len(conversations) : Cardinality(CreatorsOf(i)) = 1)
    /\ [][/\ \A i \in 1..Len(conversations) :
                conversations'[i] # conversations[i] =>
                    \E e \in CreatorsOf(i) : Acts(e)
          /\ Len(conversations') # Len(conversations) =>
                /\ Len(conversations') = Len(conversations) + 1
                /\ \E e \in Events :
                      /\ Acts(e)
                      /\ conversationId[e] = 0
                      /\ conversationId'[e] = Len(conversations')]_vars

\* C28 witness: two runs of one user, under way together, have each created
\* a conversation and ended it - one completed, one failed
C28_Witness ==
    \E e, o \in Events :
        /\ message[e].from = message[o].from
        /\ outcome[e] = "completed" /\ outcome[o] = "failed"
        /\ dedupPassedAt[e] = 0 /\ dedupPassedAt[o] = 0
        /\ conversations[conversationId[e]].status = "COMPLETED"
        /\ conversations[conversationId[o]].status = "FAILED"

\* the rows of a user, in the order they were created
UserRows(u) ==
    LET OfUser(r) == r.user_phone = u
    IN  SelectSeq(conversations, OfUser)

\* the status run e's own steps have brought its conversation to
OwnStatus(e) ==
    IF outcome[e] = "completed" THEN "COMPLETED"
    ELSE IF outcome[e] \in {"failed", "empty"} THEN "FAILED"
    ELSE IF sent[e] = 0 THEN "INITIATED" ELSE "IN_PROGRESS"

\* no other event delivered is of the same sender
AloneOfUser(e) ==
    \A o \in Events \ {e} : message[o].from # message[e].from

\* C29: runs of different users do not interfere.  When an event is the only
\* one of its sender, whatever runs of other users are interleaved with its
\* run, the sender's conversations are what that run alone makes them: none
\* until it creates one, then that one, with the status and the messages_sent
\* of the run's own steps; and the run is never stopped at the dedup check.
C29_UsersDoNotInterfere ==
    \A e \in Events :
        (pc[e] # "idle" /\ PassesFilters(message[e]) /\ AloneOfUser(e)) =>
            /\ outcome[e] # "dedup"
            /\ Len(UserRows(message[e].from)) = IF conversationId[e] = 0 THEN 0 ELSE 1
            /\ conversationId[e] # 0 =>
                  LET c == conversations[conversationId[e]]
                  IN  /\ UserRows(message[e].from) = <<c>>
                      /\ c.status = OwnStatus(e)
                      /\ c.messages_sent = sent[e]
                      /\ c.conversation_ended_at <=> (OwnStatus(e) \in TerminalStatuses)

\* C29 witness: the runs of two users overlapped - the second passed the dedup
\* check before the first created its conversation - and each user's
\* conversation ended as its own run made it: one COMPLETED with two messages
\* sent, the other FAILED with none
C29_Witness ==
    \E e, o \in Events :
        /\ message[e].from # message[o].from
        /\ conversationId[e] = 1 /\ conversationId[o] = 2
        /\ dedupPassedAt[o] = 0
        /\ outcome[e] = "completed" /\ sent[e] = 2
        /\ conversations[1].status = "COMPLETED" /\ conversations[1].messages_sent = 2
        /\ outcome[o] = "failed"
        /\ conversations[2].status = "FAILED" /\ conversations[2].messages_sent = 0

\* a message of the sender of event e would pass the dedup check
CanStartAgain(e) == getActiveConversation(conversations, message[e].from) = 0

\* C30: after a run ended in the catch having created its conversation, the
\* sender is eventually able to start a new conversation: the dedup check
\* does not go on finding an active conversation for ever.
C30_EventuallyUnblocked ==
    \A e \in Events : FailedAfterCreate(e) ~> CanStartAgain(e)

\* C30, what happens instead: once a run has ended in the catch, the
\* conversation it created is active in every later state, so the dedup check
\* finds an active conversation of the sender from then on
C30_BlockedFromThenOn ==
    [][\A e \in Events :
          FailedAfterCreate(e) => (FailedAfterCreate(e)' /\ ~CanStartAgain(e)')]_vars

(***************************************************************************)
(* Properties of the client lifecycle                                      *)
(***************************************************************************)
\* the step ran the catch of initialize(): the call was rejected by a guard
\* or client.initialize() rejected
Caught(step) == step.init \in {"retrying", "rejected"}

\* C31: in the reconnecting service reconnectAttempts stays within
\* 0..maxReconnectAttempts; every 'ready' event and every completed destroy()
\* sets it to 0; a failing initialization retries, counting one attempt, while
\* the counter is below the maximum and rejects once it is at the maximum, so
\* that no chain of failing initializations makes more than
\* maxReconnectAttempts retries between two resets of the counter.
C31_ReconnectAttemptsBounded ==
    /\ [](impl = "reconnect" =>
            /\ reconnectAttempts \in 0..maxReconnectAttempts
            /\ \A t \in BagToSet(tasks) : t.retries <= reconnectAttempts
            /\ lop.retries <= maxReconnectAttempts)
    /\ [][impl = "reconnect" =>
            /\ (lop'.op = "ready" \/ (lop'.op = "destroy" /\ lop'.note = "completed"))
                  => reconnectAttempts' = 0
            /\ Caught(lop') =>
                  /\ lop'.init = "rejected" <=> reconnectAttempts = maxReconnectAttempts
                  /\ lop'.init = "retrying" => reconnectAttempts' = reconnectAttempts + 1]_vars

\* C31 witness: a chain of initializations whose client.initialize() keeps
\* rejecting has made maxReconnectAttempts retries, each with a new Client,
\* and the last rejection made initialize() reject
C31_Witness ==
    /\ impl = "reconnect"
    /\ lop = DidCall("initialize", "client.initialize", "rejected", "none",
                     maxReconnectAttempts)
    /\ reconnectAttempts = maxReconnectAttempts
    /\ created = maxReconnectAttempts + 1

\* C32: from the completion of destroy() until initialize() is next called
\* from outside the service, the service holds no client and is neither ready
\* nor initializing.
C32_StoppedStaysStopped ==
    [](stopped => (client = 0 /\ ~isReady /\ ~isInitializing))

\* C32, the part the base service keeps: after a completed destroy() no call
\* of initialize() is made by the service itself
C32_NoSelfInitialize ==
    [][(impl = "base" /\ stopped /\ stopped') => client' = client]_vars

\* the step called initialize() and one of its guards rejected the call
RejectedByGuard(step) == step.guard # "none"

\* the fields are as before the call of initialize() made in the step; a
\* reconnection path has set this.client to null itself before its call
FieldsAsBeforeCall ==
    /\ isInitializing' = isInitializing
    /\ isReady' = isReady
    /\ qrCodeData' = qrCodeData
    /\ reconnectAttempts' = reconnectAttempts
    /\ client' = IF lop'.op = "initialize" THEN 0 ELSE client

\* C33: a call of initialize() rejected by one of its guards leaves
\* isInitializing, client, isReady, qrCodeData and reconnectAttempts as they
\* were before the call.
C33_RejectedCallChangesNothing ==
    [][RejectedByGuard(lop') => FieldsAsBeforeCall]_vars

\* C33, the part that holds: in the base service every rejected call that
\* the server makes leaves the fields as they were
C33_BaseRejectedCallChangesNothing ==
    [][(impl = "base" /\ RejectedByGuard(lop')) => FieldsAsBeforeCall]_vars

\* C34: in every reachable state of the client lifecycle isReady and
\* isInitializing are not both true, and isReady implies that the service
\* holds a client.
C34_FlagsConsistent ==
    /\ ~(isReady /\ isInitializing)
    /\ isReady => client # 0

\* C34, the part the base service keeps: isReady and isInitializing are never
\* both true
C34_BaseNeverBothFlags == impl = "base" => ~(isReady /\ isInitializing)

\* POST /start-whatsapp found the service neither ready nor initializing and
\* called initialize()
StartedFresh(step) ==
    step.op = "start-whatsapp" /\ step.note = "Inicializacion de WhatsApp en progreso"

\* POST /stop-whatsapp found the service neither ready nor initializing
AnsweredAlreadyStopped(step) ==
    step.op = "stop-whatsapp" /\ step.note = "WhatsApp ya esta detenido"

\* C35: when getStatus() reports neither ready nor initializing, the call of
\* initialize() that POST /start-whatsapp makes is not rejected (it constructs
\* a new client, or in the reconnecting service waits to do so), and POST
\* /stop-whatsapp answers 'WhatsApp ya esta detenido' only when the service
\* holds no client.
C35_ControlsRecover ==
    [][/\ StartedFresh(lop') => lop'.init # "rejected"
       /\ AnsweredAlreadyStopped(lop') => client = 0]_vars

\* C35, the part that holds: when the service holds no client and is neither
\* ready nor initializing, POST /start-whatsapp constructs a new client and
\* the service is initializing
C35_StartWithoutClient ==
    [][(StartedFresh(lop') /\ client = 0) =>
          (client' = created' /\ created' = created + 1 /\ isInitializing'
           /\ lop'.init = "awaiting")]_vars

\* GET /get-qr: the status and the QR it answers with
getQr(w) ==
    LET status == getStatus(w)
        qrCode == w.qrCodeData
    IN IF status.isReady THEN [status |-> "connected", qr |-> "null"]
       ELSE IF status.isInitializing /\ qrCode # "null"
       THEN [status |-> "qr_ready", qr |-> qrCode]
       ELSE IF status.isInitializing THEN [status |-> "initializing", qr |-> "null"]
       ELSE [status |-> "disconnected", qr |-> "null"]

\* C36: in every reachable state a QR code is held only while pairing is
\* pending: qrCodeData is not null only if isInitializing is true and isReady
\* is false.
C36_QrOnlyWhilePairing ==
    qrCodeData # "null" => (isInitializing /\ ~isReady)

\* C36, the part that holds: GET /get-qr hands out a QR only while the
\* service is initializing and not ready
C36_QrServedOnlyWhilePairing ==
    getQr(World).qr # "null" => (isInitializing /\ ~isReady)

(***************************************************************************)
(* The counter of a conversation the pipeline has ended                    *)
(***************************************************************************)
\* C37: with a dispatcher that returns sent + failed = total = the number of
\* templates and calls incrementMessagesSent once per successful send, every
\* conversation the pipeline marks COMPLETED has messages_sent >= 1 and every
\* conversation it marks FAILED has messages_sent = 0.
C37_CounterMatchesStatus ==
    /\ \A i \in 1..Len(conversations) :
          /\ conversations[i].status = "COMPLETED" => conversations[i].messages_sent >= 1
          /\ conversations[i].status = "FAILED" => conversations[i].messages_sent = 0
    /\ \A e \in Events :
          outcome[e] \in {"completed", "failed"} =>
             /\ conversations[conversationId[e]].status =
                   (IF outcome[e] = "completed" THEN "COMPLETED" ELSE "FAILED")
             /\ conversations[conversationId[e]].messages_sent = sent[e]
             /\ sent[e] + failed[e] = total[e]

\* C37 witness: one run ended its conversation COMPLETED after a partial
\* dispatch (one template sent, one failed), another ended its conversation
\* FAILED after a dispatch in which every template failed
C37_Witness ==
    \E e, o \in Events :
        /\ outcome[e] = "completed" /\ sent[e] = 1 /\ failed[e] = 1
        /\ conversations[conversationId[e]].status = "COMPLETED"
        /\ conversations[conversationId[e]].messages_sent = 1
        /\ outcome[o] = "failed" /\ total[o] = 2 /\ failed[o] = 2
        /\ conversations[conversationId[o]].status = "FAILED"
        /\ conversations[conversationId[o]].messages_sent = 0

====
